---- MODULE Spec2Model ----
(***************************************************************************)
(* A model of loopy's instruction/iname membership inference               *)
(* (loopy/kernel.py), of the in-kernel callable lifecycle and the scoped   *)
(* function naming service (loopy/kernel/function_interface.py) and of     *)
(* the registration and the inlining of callable kernels                   *)
(* (loopy/transform/callable.py), and of the construction of kernels,      *)
(* the grid sizes and the cache of set operations (loopy/kernel.py).       *)
(*                                                                         *)
(* Every subsystem has its own specification over its own variables; the   *)
(* variables of the other subsystems stay at their idle values.            *)
(***************************************************************************)
EXTENDS Integers, Sequences, FiniteSets, TLC

VARIABLES
    \* ---- find_all_insn_inames (kernel.py) ----
    instructions,       \* the kernel's instruction list (fixed after Init)
    insn_id_to_inames,  \* insn id -> set of inames
    pc,                 \* position in find_all_insn_inames
    idx,                \* index of the instruction the pass is visiting
    pending,            \* temporaries of that instruction still to be visited
    did_something,      \* the pass changed some set
    grid_sizes,         \* what get_grid_sizes gave for the kernel
    \* ---- the callable lifecycle (function_interface.py) ----
    callable,           \* the callable at hand: the last one constructed
    op,                 \* the last transition applied
    outcome,            \* "ok", or the exception it raised
    receiver,           \* the callable it was applied to, before the call
    receiver_after,     \* the same object after the call
    passed,             \* the mapping passed to it, before the call
    passed_after,       \* the same object after the call
    order,              \* the order in which the dict passed gave its items
    \* ---- the naming service (function_interface.py) ----
    pymbolic_exprs_to_knl_callables,  \* the items given, in the dict's order
    naming_kernel,      \* the kernel given: its call expressions and scoped functions
    registry,           \* the three dicts of the service
    call_pos,           \* the item the loop is at
    naming_pc,          \* position in register_pymbolic_calls_to_knl_callables
    scoped_kernel,      \* the kernel returned
    \* ---- inlining (transform/callable.py) ----
    inl_kernel,         \* the kernel inline_callable_kernel is working on
    function_name,      \* the name of the nested kernel to inline
    old_insns,          \* the instructions the loop goes over
    original,           \* the kernel the function was given
    insn_pos,           \* the instruction the loop is at
    inlined,            \* the last call of _inline_call_instruction
    inl_pc,             \* position in inline_callable_kernel
    \* ---- index remapping (transform/callable.py) ----
    subscript,          \* the subscript map_subscript is given
    new_indices,        \* the index tuple it returns
    remap_pc,           \* position in map_subscript
    \* ---- register_callable_kernel (transform/callable.py) ----
    reg_caller,         \* the caller kernel given
    reg_function_name,  \* the name the callee is registered under
    reg_callee,         \* the callee kernel given
    reg_pos,            \* the instruction the function is at
    reg_pc,             \* position in the registration and the inlining after it
    reg_kernel,         \* the kernel register_callable_kernel returned
    reg_arg_map,        \* callee argument name -> symbol of the call
    \* ---- LoopKernel.__init__ and sequential_inames (kernel.py) ----
    ctor_input,         \* the instructions argument of the constructor
    ctor_iname_to_tag,  \* its iname_to_tag argument
    ctor_insns,         \* insns: the instructions collected so far
    ctor_pos,           \* the item the loop is at
    ctor_pc,            \* position in the constructor and the query after it
    ctor_sequential,    \* what sequential_inames returned
    \* ---- SetOperationCacheManager (kernel.py) ----
    cm_cache,           \* self.cache: hash value -> list of entries
    cm_queries          \* the queries made so far, and what they returned

inameVars == <<instructions, insn_id_to_inames, pc, idx, pending, did_something,
               grid_sizes>>

callableVars == <<callable, op, outcome, receiver, receiver_after, passed,
                  passed_after, order>>

namingVars == <<pymbolic_exprs_to_knl_callables, naming_kernel, registry,
                call_pos, naming_pc, scoped_kernel>>

inlineVars == <<inl_kernel, function_name, old_insns, original, insn_pos,
                inlined, inl_pc>>

remapVars == <<subscript, new_indices, remap_pc>>

registerVars == <<reg_caller, reg_function_name, reg_callee, reg_pos, reg_pc,
                  reg_kernel, reg_arg_map>>

ctorVars == <<ctor_input, ctor_iname_to_tag, ctor_insns, ctor_pos, ctor_pc,
              ctor_sequential>>

cacheVars == <<cm_cache, cm_queries>>

vars ==
    <<inameVars,
      callableVars,
      namingVars,
      inlineVars,
      remapVars,
      registerVars,
      ctorVars,
      cacheVars>>

(***************************************************************************)
(* Bounds                                                                  *)
(***************************************************************************)
\* number of instructions drawn from the full palette
MaxInsns == 2

\* number of call expressions given to the naming service
MaxCalls == 3

\* number of instructions of the nested kernel that is inlined
MaxCalleeInsns == 2

\* number of instructions of the kernel that calls it
MaxCallerInsns == 3

\* the most instructions of a caller kernel that a callee is registered with
MaxRegInsns == 2

\* the most items in the instruction list a kernel is constructed from
MaxCtorItems == 3

\* the most queries made to one cache manager
MaxQueries == 3

(***************************************************************************)
(* Part 1: find_all_insn_inames                                            *)
(***************************************************************************)
\* the elements of a sequence
Range(s) == {s[k] : k \in DOMAIN s}

\* the kernel's inames: LoopKernel.all_inames()
all_inames == {"i", "j"}

\* kernel.temporary_variables.iterkeys()
temp_var_names == {"t", "u"}

\* the names of kernel.args
arg_names == {"a"}

\* The instructions the kernels are built from.  An instruction is known to
\* the algorithm by the free variables of its assignee (write_deps) and of
\* its expression (read_deps), its forced iname dependencies and the inames
\* bound by reductions in its expression.  read_deps may or may not contain a
\* reduction-bound iname (the iname can also occur free in the expression).
InsnPalette ==
    { [assignee |-> w, write_deps |-> {w} \cup wi, read_deps |-> rt \cup ri,
       forced_iname_deps |-> f, reduction_inames |-> red] :
        w \in temp_var_names \cup arg_names, wi \in {{}, {"i"}},
        rt \in SUBSET temp_var_names, ri \in {{}, {"i"}, {"j"}},
        f \in {{}}, red \in {{}, {"j"}} }

\* the writers of the three-instruction chains (z = ..., y = f(z), x = f(y))
WriterPalette ==
    { p \in InsnPalette :
        /\ p.assignee \in temp_var_names
        /\ Cardinality(p.read_deps \cap temp_var_names) <= 1
        /\ "i" \notin p.read_deps }

\* a last instruction that only consumes temporaries
ReaderPalette ==
    { [assignee |-> "a", write_deps |-> {"a"} \cup wi, read_deps |-> rt,
       forced_iname_deps |-> f, reduction_inames |-> red] :
        wi \in {{}}, rt \in {{"t"}, {"t", "u"}},
        f \in {{}, {"j"}}, red \in {{}, {"j"}} }

\* ids are the positions: unique within the kernel
WithIds(s) == [k \in 1..Len(s) |-> [id |-> k] @@ s[k]]

\* instructions of kernels in which a variable is written that is neither an
\* argument nor a temporary
UndeclaredPalette ==
    { [assignee |-> w, write_deps |-> {w}, read_deps |-> rt,
       forced_iname_deps |-> {}, reduction_inames |-> {}] :
        w \in {"t", "a", "z"}, rt \in {{}, {"t"}} }

\* instructions of kernels in which an argument is written under an iname
\* and read
ArgumentPalette ==
    { [assignee |-> w, write_deps |-> {w}, read_deps |-> r,
       forced_iname_deps |-> {}, reduction_inames |-> {}] :
        w \in {"t", "a"}, r \in {{"j"}, {"a"}, {"a", "t"}} }

\* instructions with forced iname dependencies ("{i}: t = ..."); the names are
\* taken as written, "k" is no iname of the domain
ForcedPalette ==
    { [assignee |-> w, write_deps |-> {w}, read_deps |-> rt,
       forced_iname_deps |-> f, reduction_inames |-> {}] :
        w \in {"t", "a"}, rt \in {{}, {"t"}}, f \in {{}, {"i"}, {"k"}} }

Kernels ==
    { WithIds(s) : s \in UNION { [1..n -> InsnPalette] : n \in 0..MaxInsns } }
    \cup
    { WithIds(s) : s \in UNION { [1..n -> ForcedPalette] : n \in 1..MaxInsns } }
    \cup
    { WithIds(s) : s \in UNION { [1..n -> ArgumentPalette] : n \in 1..MaxInsns } }
    \cup
    { WithIds(s \o <<r>>) : s \in [1..MaxInsns -> WriterPalette], r \in ReaderPalette }
    \cup
    { WithIds(s) : s \in UNION { [1..n -> UndeclaredPalette] : n \in 1..MaxInsns } }

\* admissible_vars of writer_map: the arguments and the temporaries
admissible_vars == arg_names \cup temp_var_names

\* a bug: the assignee is not looked up among the admissible variables
RECURSIVE WriterMapLoopUnchecked(_, _)
WriterMapLoopUnchecked(insns, result) ==
    IF insns = <<>> THEN [err |-> "None", result |-> result]
    ELSE LET var_name == Head(insns).assignee
             ids == IF var_name \in DOMAIN result THEN result[var_name] ELSE {}
         IN  WriterMapLoopUnchecked(Tail(insns),
                (var_name :> (ids \cup {Head(insns).id})) @@ result)

\* the loop of LoopKernel.writer_map over the instructions:
\* result.setdefault(var_name, set()).add(insn.id), RuntimeError for an
\* assignee that is not admissible
RECURSIVE WriterMapLoop(_, _)
WriterMapLoop(insns, result) ==
    IF insns = <<>> THEN [err |-> "None", result |-> result]
    ELSE LET var_name == Head(insns).assignee
             ids == IF var_name \in DOMAIN result THEN result[var_name] ELSE {}
         IN  IF var_name \notin admissible_vars
             THEN [err |-> "RuntimeError", result |-> <<>>]
             ELSE WriterMapLoop(Tail(insns),
                    (var_name :> (ids \cup {Head(insns).id})) @@ result)

\* LoopKernel.writer_map: variable name -> ids of the instructions writing it;
\* only written variables are keys
writer_map == WriterMapLoop(instructions, <<>>).result

\* iname_deps of the first loop: (deps & all_inames) | forced_iname_deps
DirectInames(insn) ==
    ((insn.read_deps \cup insn.write_deps) \cap all_inames)
        \cup insn.forced_iname_deps

\* insn_assignee_inames[insn.id] = write_deps & all_inames
AssigneeInames(insn) == insn.write_deps \cap all_inames

\* get_dependencies(insn.expression) & temp_var_names
ReadTemps(insn) == insn.read_deps \cap temp_var_names

\* a bug: the inames of any writer count, not the ones all writers share
ImplicitInamesOfAnyWriter(tv, cur) ==
    LET W == writer_map[tv]
        wi(w) == cur[w] \ AssigneeInames(instructions[w])
    IN  UNION { wi(w) : w \in W }

\* the inner loop over writer_map[tv_name]: the intersection over the writers
\* of (insn_id_to_inames[writer] - insn_assignee_inames[writer])
ImplicitInames(tv, cur) ==
    LET W == writer_map[tv]
        wi(w) == cur[w] \ AssigneeInames(instructions[w])
    IN  { n \in UNION { wi(w) : w \in W } : \A w \in W : n \in wi(w) }

\* a bug: the implicit inames toggle the set instead of being added to it
InamesNewToggling(insn, tv, cur) ==
    LET imp == ImplicitInames(tv, cur)
    IN  ((cur[insn.id] \ imp) \cup (imp \ cur[insn.id])) \ insn.reduction_inames

\* a bug: the set is replaced by the implicit inames, inames_old is dropped
InamesNewForgetsOld(insn, tv, cur) ==
    ImplicitInames(tv, cur) \ insn.reduction_inames

\* inames_new = (inames_old | implicit_inames) - insn.reduction_inames()
InamesNew(insn, tv, cur) ==
    (cur[insn.id] \cup ImplicitInames(tv, cur)) \ insn.reduction_inames

\* the orders in which a set of temporaries can give its elements
TempOrders == { <<"t", "u">>, <<"u", "t">> }

\* "for tv_name in (get_dependencies(insn.expression) & temp_var_names)" for
\* one instruction, the set giving its elements in the order of temps; st is
\* insn_id_to_inames and did_something
RECURSIVE VisitTemps(_, _, _)
VisitTemps(insn, temps, st) ==
    IF temps = <<>> THEN st
    ELSE IF Head(temps) \notin ReadTemps(insn)
    THEN VisitTemps(insn, Tail(temps), st)
    ELSE LET inames_old == st.insn_id_to_inames[insn.id]
             inames_new == InamesNew(insn, Head(temps), st.insn_id_to_inames)
         IN  VisitTemps(insn, Tail(temps),
                [insn_id_to_inames |->
                    [st.insn_id_to_inames EXCEPT ![insn.id] = inames_new],
                 did_something |->
                    (st.did_something \/ inames_new /= inames_old)])

\* "for insn in instructions": one pass, the list giving the instructions in
\* the order of listed
RECURSIVE OnePass(_, _, _)
OnePass(listed, temps, st) ==
    IF listed = <<>> THEN st
    ELSE OnePass(Tail(listed), temps,
                 VisitTemps(instructions[Head(listed)], temps, st))

\* "while True: ... if not did_something: break"
RECURSIVE WhileTrue(_, _, _)
WhileTrue(listed, temps, cur) ==
    LET st == OnePass(listed, temps,
                      [insn_id_to_inames |-> cur, did_something |-> FALSE])
    IN  IF ~st.did_something THEN st.insn_id_to_inames
        ELSE WhileTrue(listed, temps, st.insn_id_to_inames)

\* find_all_insn_inames(instructions, all_inames, writer_map,
\* temporary_variables) for the instructions of the kernel listed in the
\* given order: the mapping returned
find_all_insn_inames(listed, temps) ==
    WhileTrue(listed, temps,
              [k \in DOMAIN instructions |-> DirectInames(instructions[k])])

\* the lists that hold the instructions of the kernel, each once
Listings ==
    { [k \in DOMAIN instructions |-> p[k]] : p \in Permutations(DOMAIN instructions) }

InamesInit ==
    /\ instructions \in Kernels
    /\ insn_id_to_inames = <<>>
    /\ pc = "setup"
    /\ idx = 0
    /\ pending = {}
    /\ did_something = FALSE
    /\ grid_sizes = "None"

\* all_insn_inames: self.writer_map() raises, find_all_insn_inames is not
\* called
WriterMapRaises ==
    /\ pc = "setup"
    /\ WriterMapLoop(instructions, <<>>).err /= "None"
    /\ pc' = WriterMapLoop(instructions, <<>>).err
    /\ UNCHANGED <<grid_sizes, instructions, insn_id_to_inames, idx, pending, did_something>>

\* the first loop: direct inames of every instruction
Setup ==
    /\ pc = "setup"
    /\ WriterMapLoop(instructions, <<>>).err = "None"
    /\ insn_id_to_inames' =
            [k \in DOMAIN instructions |-> DirectInames(instructions[k])]
    /\ pc' = "while"
    /\ UNCHANGED <<grid_sizes, instructions, idx, pending, did_something>>

\* "while True: did_something = False; for insn in instructions:"
BeginPass ==
    /\ pc = "while"
    /\ did_something' = FALSE
    /\ idx' = 1
    /\ pending' = IF Len(instructions) >= 1
                     THEN ReadTemps(instructions[1]) ELSE {}
    /\ pc' = "for"
    /\ UNCHANGED <<grid_sizes, instructions, insn_id_to_inames>>

\* one iteration of "for tv_name in (get_dependencies(...) & temp_var_names)";
\* the set is iterated in an unspecified order
VisitTemp ==
    /\ pc = "for"
    /\ idx <= Len(instructions)
    /\ \E tv \in pending :
        /\ tv \in DOMAIN writer_map
        /\ LET insn == instructions[idx]
               new == InamesNew(insn, tv, insn_id_to_inames)
           IN  /\ insn_id_to_inames' = [insn_id_to_inames EXCEPT ![insn.id] = new]
               /\ did_something' =
                    (did_something \/ new /= insn_id_to_inames[insn.id])
        /\ pending' = pending \ {tv}
    /\ UNCHANGED <<grid_sizes, instructions, pc, idx>>

\* writer_map[tv_name] for a temporary that no instruction writes
VisitUnwrittenTemp ==
    /\ pc = "for"
    /\ idx <= Len(instructions)
    /\ \E tv \in pending : tv \notin DOMAIN writer_map
    /\ pc' = "KeyError"
    /\ UNCHANGED <<grid_sizes, instructions, insn_id_to_inames, idx, pending, did_something>>

\* the next instruction of the pass
NextInsn ==
    /\ pc = "for"
    /\ idx < Len(instructions)
    /\ pending = {}
    /\ idx' = idx + 1
    /\ pending' = ReadTemps(instructions[idx + 1])
    /\ UNCHANGED <<grid_sizes, instructions, insn_id_to_inames, pc, did_something>>

\* "if not did_something: break", else the next pass
EndPass ==
    /\ pc = "for"
    /\ idx >= Len(instructions)
    /\ pending = {}
    /\ pc' = IF did_something THEN "while" ELSE "done"
    /\ UNCHANGED <<grid_sizes, instructions, insn_id_to_inames, idx, pending, did_something>>

\* LoopKernel.get_grid_sizes of a kernel without tagged inames: the inames
\* collected from the instructions must be inames of the domain; no iname has
\* a group or local tag, so both size tuples are empty
GetGridSizes ==
    /\ pc = "done"
    /\ grid_sizes = "None"
    /\ LET all_inames_by_insns ==
                UNION { insn_id_to_inames[insn.id] : insn \in Range(instructions) }
       IN  grid_sizes' = IF ~(all_inames_by_insns \subseteq all_inames)
                            THEN "RuntimeError"
                            ELSE "((), ())"
    /\ UNCHANGED <<instructions, insn_id_to_inames, pc, idx, pending, did_something>>

InamesNext ==
    \/ WriterMapRaises
    \/ Setup
    \/ BeginPass
    \/ VisitTemp
    \/ VisitUnwrittenTemp
    \/ NextInsn
    \/ EndPass
    \/ GetGridSizes

(***************************************************************************)
(* Part 2: in-kernel callables (function_interface.py)                     *)
(***************************************************************************)
\* Python's None, where a string can stand
None == "None"

\* Python's None, where a mapping or an object can stand
Nil == [none |-> TRUE]

\* Argument identifiers: non-negative integers are inputs, negative integers
\* are outputs, names are keywords.  They are written as strings so that one
\* mapping can hold positional and keyword identifiers.
PosIds == {"0", "1", "-1", "-2"}

PosToId(n) ==
    CASE n = 0 -> "0" [] n = 1 -> "1" [] n = -1 -> "-1" [] n = -2 -> "-2"

IdToPos(id) ==
    CASE id = "0" -> 0 [] id = "1" -> 1 [] id = "-1" -> -1 [] id = "-2" -> -2

\* a LoopyType: a numpy dtype and the target it is associated with
DType(dt, tgt) == [dt |-> dt, target |-> tgt]

\* LoopyType.with_target
DTypeWithTarget(dtype, target) == [dtype EXCEPT !.target = target]

\* ValueArgDescriptor() and the ArrayArgDescriptors that are passed around
ValueArgDescriptor == [kind |-> "value"]

ArrayArgDescriptor(shape, mem_scope, dim_tags) ==
    [kind |-> "array", shape |-> shape, mem_scope |-> mem_scope,
     dim_tags |-> dim_tags]

\* an argument of a (nested) kernel
KernelArg(name, direction) ==
    [name |-> name, direction |-> direction, dtype |-> Nil,
     shape |-> <<6>>, dim_tags |-> <<1>>, mem_scope |-> "global"]

\* the nested kernels: without arguments, with an input followed by an output,
\* with the output declared first, and with two inputs and two outputs
SubKernel(args) ==
    [name |-> "f", target |-> "T", args |-> args, grid_override |-> Nil]

SubKernels ==
    { SubKernel(<<>>),
      SubKernel(<<KernelArg("x", "in"), KernelArg("y", "out")>>),
      SubKernel(<<KernelArg("y", "out"), KernelArg("x", "in")>>),
      SubKernel(<<KernelArg("x", "in"), KernelArg("y", "out"),
                  KernelArg("z", "in"), KernelArg("w", "out")>>) }

\* "for arg in kernel.args" of get_kw_pos_association: the two dicts are
\* filled with the running counts of the inputs and of the outputs
RECURSIVE KwPosLoop(_, _, _, _)
KwPosLoop(args, read_count, write_count, acc) ==
    IF args = <<>> THEN acc
    ELSE LET arg == Head(args)
         IN  IF arg.direction = "in"
             THEN KwPosLoop(Tail(args), read_count + 1, write_count,
                    [acc EXCEPT
                        !.kw_to_pos = (arg.name :> read_count) @@ @,
                        !.pos_to_kw = (read_count :> arg.name) @@ @])
             ELSE IF arg.direction = "out"
             THEN KwPosLoop(Tail(args), read_count, write_count - 1,
                    [acc EXCEPT
                        !.kw_to_pos = (arg.name :> write_count) @@ @,
                        !.pos_to_kw = (write_count :> arg.name) @@ @])
             ELSE [acc EXCEPT !.err = "LoopyError"]

\* a bug: the outputs are counted from 0 as the inputs are
get_kw_pos_association_from_zero(kernel) ==
    KwPosLoop(kernel.args, 0, 0,
              [err |-> None, kw_to_pos |-> <<>>, pos_to_kw |-> <<>>])

\* get_kw_pos_association(kernel): read_count = 0, write_count = -1
get_kw_pos_association(kernel) ==
    KwPosLoop(kernel.args, 0, -1,
              [err |-> None, kw_to_pos |-> <<>>, pos_to_kw |-> <<>>])

\* kw_to_pos of get_kw_pos_association: inputs are numbered 0, 1, ... and
\* outputs -1, -2, ... in declaration order
KwToPos(kernel) == get_kw_pos_association(kernel).kw_to_pos

\* CallableKernel.__init__: a target name renames the subkernel, and the
\* argument dtypes are associated with the subkernel's target
MakeCallableKernel(subkernel, arg_id_to_dtype, arg_id_to_descr, name_in_target) ==
    LET named == IF name_in_target /= None
                 THEN [subkernel EXCEPT !.name = name_in_target]
                 ELSE subkernel
    IN  [kind |-> "CallableKernel",
         name |-> None,
         function_mangler |-> None,
         subkernel |->
            [named EXCEPT !.args =
                [k \in DOMAIN named.args |->
                    IF named.args[k].dtype /= Nil
                    THEN [named.args[k] EXCEPT
                            !.dtype = DTypeWithTarget(@, named.target)]
                    ELSE named.args[k]]],
         arg_id_to_dtype |-> arg_id_to_dtype,
         arg_id_to_descr |-> arg_id_to_descr,
         name_in_target |-> name_in_target]

\* ScalarCallable.__init__
MakeScalarCallable(name, arg_id_to_dtype, arg_id_to_descr, name_in_target) ==
    [kind |-> "ScalarCallable", name |-> name, function_mangler |-> None,
     subkernel |-> Nil, arg_id_to_dtype |-> arg_id_to_dtype,
     arg_id_to_descr |-> arg_id_to_descr, name_in_target |-> name_in_target]

\* ManglerCallable.__init__
MakeManglerCallable(name, function_mangler, arg_id_to_dtype, arg_id_to_descr, name_in_target) ==
    [kind |-> "ManglerCallable", name |-> name,
     function_mangler |-> function_mangler,
     subkernel |-> Nil, arg_id_to_dtype |-> arg_id_to_dtype,
     arg_id_to_descr |-> arg_id_to_descr, name_in_target |-> name_in_target]

\* ImmutableRecord.copy: the constructor of the class runs again on the fields
CopyCallable(c) ==
    IF c.kind = "CallableKernel"
    THEN MakeCallableKernel(c.subkernel, c.arg_id_to_dtype, c.arg_id_to_descr,
                            c.name_in_target)
    ELSE c

\* what a transition gives: the new callable, or the exception raised
Returned(c) == [outcome |-> "ok", callable |-> c]

Raised(e) == [outcome |-> e, callable |-> Nil]

\* the function manglers: (target, name, arg_dtypes) -> CallMangleInfo or None.
\* "exact" knows the function for one or two arguments of one type and
\* returns the argument types it was given; "promoting" knows it for one
\* argument and computes in double precision whatever it is given.
Manglers == {"exact", "promoting"}

CallMangleInfo(target_name, arg_dtypes, result_dtypes) ==
    [target_name |-> target_name, arg_dtypes |-> arg_dtypes,
     result_dtypes |-> result_dtypes]

Mangle(function_mangler, target, name, arg_dtypes) ==
    CASE function_mangler = "exact" ->
            IF /\ Len(arg_dtypes) \in {1, 2}
               /\ \A k \in DOMAIN arg_dtypes : arg_dtypes[k].dt = arg_dtypes[1].dt
            THEN CallMangleInfo(
                    IF arg_dtypes[1].dt = "f32" THEN "sinf" ELSE "sin",
                    arg_dtypes, <<arg_dtypes[1]>>)
            ELSE Nil
      [] function_mangler = "promoting" ->
            IF Len(arg_dtypes) = 1
            THEN CallMangleInfo("sin", <<DType("f64", target)>>,
                                <<DType("f64", target)>>)
            ELSE Nil

\* the target of the kernel the callables are specialized for
KernelTarget == "T"

\* tuple(arg_id_to_dtype[key] for key in sorted(keys) if key >= 0)
RECURSIVE SortedInputDtypes(_, _)
SortedInputDtypes(m, n) ==
    IF n > 1 THEN <<>>
    ELSE (IF PosToId(n) \in DOMAIN m THEN <<m[PosToId(n)]>> ELSE <<>>)
            \o SortedInputDtypes(m, n + 1)

\* ScalarCallable.with_types
ScalarWithTypes(c, m) == {Raised("LoopyError")}

\* ManglerCallable.with_types, the consultation of the mangler: the known
\* input types in ascending id order; the answer gives the target name, the
\* input types (ids 0, 1, ...) and the result types (ids -1, -2, ...).  A
\* mangler that does not know the function makes the formatting of the error
\* message fail.
ManglerSpecialize(c, m) ==
    LET r == Mangle(c.function_mangler, KernelTarget, c.name,
                    SortedInputDtypes(m, 0))
    IN  IF r = Nil THEN {Raised("TypeError")}
        ELSE {Returned([c EXCEPT
                !.name_in_target = r.target_name,
                !.arg_id_to_dtype =
                    [id \in {PosToId(k - 1) : k \in DOMAIN r.arg_dtypes}
                        \cup {PosToId(-k) : k \in DOMAIN r.result_dtypes} |->
                        IF IdToPos(id) >= 0 THEN r.arg_dtypes[IdToPos(id) + 1]
                        ELSE r.result_dtypes[-IdToPos(id)]]])}

\* ManglerCallable.with_types.  The check of an already specialized callable
\* walks the given mapping in the dict's order: a missing id raises KeyError,
\* a different type LoopyError, whichever comes first.  Two types of one
\* numpy dtype that are associated with different targets compare as the
\* type classes decide: either way.
ManglerWithTypes(c, m) ==
    LET old == c.arg_id_to_dtype
        given == IF old = Nil THEN {} ELSE DOMAIN m
        missing == given \ DOMAIN old
        differing == {id \in given \cap DOMAIN old : old[id].dt /= m[id].dt}
        unsettled == {id \in given \cap DOMAIN old :
                        old[id].dt = m[id].dt /\ old[id].target /= m[id].target}
    IN  IF missing \cup differing /= {}
        THEN {Raised("KeyError") : id \in missing}
                \cup {Raised("LoopyError") : id \in differing}
        ELSE ManglerSpecialize(c, m)
                \cup {Raised("LoopyError") : id \in unsettled}

\* infer_unknown_types(kernel, expect_completion=True) on the nested kernel
\* "y = f(x)": an output of unknown type gets the type of the first input;
\* an argument whose type stays unknown makes the inference fail
InferUnknownTypes(kernel) ==
    LET args == kernel.args
        ins == {k \in DOMAIN args : args[k].direction = "in"}
        known == {k \in ins : args[k].dtype /= Nil}
        first == CHOOSE k \in known : \A m \in known : k <= m
    IN  IF \E k \in ins : args[k].dtype = Nil THEN Nil
        ELSE IF ins = {} /\ \E k \in DOMAIN args : args[k].dtype = Nil THEN Nil
        ELSE [kernel EXCEPT !.args =
                [k \in DOMAIN args |->
                    IF args[k].dtype = Nil
                    THEN [args[k] EXCEPT !.dtype = args[first].dtype]
                    ELSE args[k]]]

\* CallableKernel.with_types
CallableKernelWithTypes(c, m) ==
    LET kw_to_pos == KwToPos(c.subkernel)
        args == c.subkernel.args
        new_args ==
            [k \in DOMAIN args |->
                IF args[k].name \in DOMAIN m
                THEN [args[k] EXCEPT !.dtype = m[args[k].name]]
                ELSE IF PosToId(kw_to_pos[args[k].name]) \in DOMAIN m
                THEN [args[k] EXCEPT !.dtype = m[PosToId(kw_to_pos[args[k].name])]]
                ELSE args[k]]
        specialized_kernel ==
            InferUnknownTypes([c.subkernel EXCEPT !.args = new_args])
        sargs == specialized_kernel.args
        new_arg_id_to_dtype ==
            [id \in {sargs[k].name : k \in DOMAIN sargs}
                \cup {PosToId(kw_to_pos[sargs[k].name]) : k \in DOMAIN sargs} |->
                LET k == CHOOSE n \in DOMAIN sargs :
                            id \in {sargs[n].name, PosToId(kw_to_pos[sargs[n].name])}
                IN  sargs[k].dtype]
    IN  IF specialized_kernel = Nil THEN {Raised("LoopyError")}
        ELSE {Returned(MakeCallableKernel(specialized_kernel, new_arg_id_to_dtype,
                                          c.arg_id_to_descr, c.name_in_target))}

\* with_types of the three classes
WithTypes(c, m) ==
    CASE c.kind = "ScalarCallable" -> ScalarWithTypes(c, m)
      [] c.kind = "ManglerCallable" -> ManglerWithTypes(c, m)
      [] c.kind = "CallableKernel" -> CallableKernelWithTypes(c, m)

\* what with_descrs gives: the result and the mapping object that was passed,
\* as it is after the call
DescrResult(r, m_after) == [result |-> r, passed_after |-> m_after]

\* ScalarCallable.with_descrs (ManglerCallable inherits it):
\* "arg_id_to_descr[-1] = ValueArgDescriptor()" writes into the caller's dict,
\* which the new callable then holds
ScalarWithDescrs(c, m) ==
    LET written == [id \in DOMAIN m \cup {"-1"} |->
                        IF id = "-1" THEN ValueArgDescriptor ELSE m[id]]
    IN  DescrResult(Returned([c EXCEPT !.arg_id_to_descr = written]), written)

\* new_args[id]: a Python list index, negative ones count from the end
ListIndex(len, id) == IF id >= 0 THEN id + 1 ELSE len + id + 1

\* the loop of CallableKernel.with_descrs over arg_id_to_descr.items(), in the
\* order the dict gives them
RECURSIVE RewriteArgs(_, _, _, _)
RewriteArgs(new_args, kw_to_pos, m, o) ==
    IF o = <<>> THEN [err |-> None, args |-> new_args]
    ELSE
        LET id == Head(o)
            descr == m[id]
        IN  IF id \notin PosIds /\ id \notin DOMAIN kw_to_pos
            THEN [err |-> "KeyError", args |-> new_args]
            ELSE
                LET pos == IF id \in PosIds THEN IdToPos(id) ELSE kw_to_pos[id]
                    k == ListIndex(Len(new_args), pos)
                IN  IF descr.kind = "array"
                    THEN IF k \notin DOMAIN new_args
                         THEN [err |-> "IndexError", args |-> new_args]
                         ELSE RewriteArgs(
                                [new_args EXCEPT ![k] =
                                    [@ EXCEPT !.shape = descr.shape,
                                              !.dim_tags = descr.dim_tags,
                                              !.mem_scope = descr.mem_scope]],
                                kw_to_pos, m, Tail(o))
                    ELSE RewriteArgs(new_args, kw_to_pos, m, Tail(o))

\* CallableKernel.with_descrs
CallableKernelWithDescrs(c, m, o) ==
    LET r == RewriteArgs(c.subkernel.args, KwToPos(c.subkernel), m, o)
    IN  IF r.err /= None THEN DescrResult(Raised(r.err), m)
        ELSE DescrResult(
                Returned(MakeCallableKernel(
                    [c.subkernel EXCEPT !.args = r.args],
                    c.arg_id_to_dtype, m, c.name_in_target)),
                m)

\* with_descrs of the three classes
WithDescrs(c, m, o) ==
    IF c.kind = "CallableKernel" THEN CallableKernelWithDescrs(c, m, o)
    ELSE ScalarWithDescrs(c, m)

\* GridOverrideForCalleeKernel(local_size, global_size)
GridOverrideForCalleeKernel(local_size, global_size) ==
    [local_size |-> local_size, global_size |-> global_size]

\* GridOverrideForCalleeKernel.__call__(insn_ids, ignore_auto): the pair
\* (self.local_size, self.global_size), whatever the instruction ids
GridOverrideCall(override, insn_ids) ==
    <<override.local_size, override.global_size>>

\* a bug: the sizes are handed to GridOverrideForCalleeKernel unswapped
WithHwAxesSizesUnswapped(c, first, second) ==
    IF c.kind = "CallableKernel"
    THEN Returned(MakeCallableKernel(
            [c.subkernel EXCEPT
                !.grid_override = GridOverrideForCalleeKernel(first, second)],
            c.arg_id_to_dtype, c.arg_id_to_descr, c.name_in_target))
    ELSE Returned(CopyCallable(c))

\* with_hw_axes_sizes: ScalarCallable.with_hw_axes_sizes(global_size, local_size)
\* copies; CallableKernel.with_hw_axes_sizes(gsize, lsize) overrides the
\* subkernel's grid sizes with GridOverrideForCalleeKernel(lsize, gsize)
WithHwAxesSizes(c, first, second) ==
    IF c.kind = "CallableKernel"
    THEN Returned(MakeCallableKernel(
            [c.subkernel EXCEPT
                !.grid_override = GridOverrideForCalleeKernel(second, first)],
            c.arg_id_to_dtype, c.arg_id_to_descr, c.name_in_target))
    ELSE Returned(CopyCallable(c))

\* InKernelCallable.with_target: new_arg_id_to_dtype stays None unless
\* self.arg_id_to_dtype is true, which an empty dict is not
WithTarget(c, target) ==
    IF target = None THEN Raised("LoopyError")
    ELSE Returned(CopyCallable([c EXCEPT !.arg_id_to_dtype =
            IF c.arg_id_to_dtype = Nil \/ DOMAIN c.arg_id_to_dtype = {}
            THEN Nil
            ELSE [id \in DOMAIN c.arg_id_to_dtype |->
                    DTypeWithTarget(c.arg_id_to_dtype[id], target)]]))

\* a bug: CallableKernel forgets the target name
IsReadyForCodegenIgnoresName(c) ==
    c.arg_id_to_dtype /= Nil /\ c.arg_id_to_descr /= Nil

\* is_ready_for_codegen of InKernelCallable, ScalarCallable and CallableKernel
IsReadyForCodegen(c) ==
    CASE c.kind = "CallableKernel" ->
            /\ c.arg_id_to_dtype /= Nil
            /\ c.arg_id_to_descr /= Nil
            /\ c.name_in_target /= None
      [] c.kind \in {"ScalarCallable", "ManglerCallable"} ->
            /\ c.arg_id_to_dtype /= Nil
            /\ c.arg_id_to_descr /= Nil

\* the mappings that are passed to the transitions: every way of giving some
\* of the ids a value that is on offer for it
Offers(offer) ==
    UNION { { m \in [D -> UNION {offer[id] : id \in DOMAIN offer}] :
                \A id \in D : m[id] \in offer[id] } : D \in SUBSET DOMAIN offer }

F32 == DType("f32", None)

F64 == DType("f64", None)

ArrayDescr == ArrayArgDescriptor(<<3, 2>>, "global", <<2, 1>>)

\* scalar functions take positional arguments; a nested kernel's arguments
\* can also be named
TypeMaps(c) ==
    IF c.kind = "CallableKernel"
    THEN Offers([id \in {"0", "-1"} |-> IF id = "0" THEN {F32, F64} ELSE {F32}])
            \cup {[id \in {"x"} |-> F32]}
            \cup {[id \in {"x", "1"} |-> IF id = "x" THEN F32 ELSE F64],
                  [id \in {"0", "z"} |-> F64]}
    ELSE Offers([id \in {"0", "1"} |-> {F32, F64}])
            \cup {[id \in {"0", "-1"} |-> F32]}

DescrMaps(c) ==
    IF c.kind = "CallableKernel"
    THEN Offers([id \in {"0", "-1"} |->
                    IF id = "0" THEN {ValueArgDescriptor, ArrayDescr}
                    ELSE {ArrayDescr}])
            \cup {[id \in {"x"} |-> ValueArgDescriptor]}
    ELSE Offers([id \in {"0", "-1"} |-> {ValueArgDescriptor}])

\* the orders in which a dict with the keys S can give its items
Orders(S) ==
    { o \in [1..Cardinality(S) -> S] : \A k, n \in DOMAIN o : o[k] = o[n] => k = n }

\* the callables as they are constructed
InitialCallables ==
    { MakeScalarCallable("sin", dt, ds, nit) :
        dt \in {Nil, [id \in {"0", "-1"} |-> F32]},
        ds \in {Nil, [id \in {"0"} |-> ValueArgDescriptor]},
        nit \in {None, "sinf"} }
    \cup { MakeManglerCallable("sin", mg, Nil, Nil, None) : mg \in Manglers }
    \cup { MakeCallableKernel(k, Nil, Nil, None) : k \in SubKernels }

CallableInit ==
    /\ callable \in InitialCallables
    /\ op = "new"
    /\ outcome = "ok"
    /\ receiver = Nil
    /\ receiver_after = Nil
    /\ passed = Nil
    /\ passed_after = Nil
    /\ order = <<>>

\* the bookkeeping of a transition on the callable at hand
Applied(name, r, recv_after, m, m_after, o) ==
    /\ op' = name
    /\ outcome' = r.outcome
    /\ receiver' = callable
    /\ receiver_after' = recv_after
    /\ passed' = m
    /\ passed_after' = m_after
    /\ order' = o
    /\ callable' = IF r.outcome = "ok" THEN r.callable ELSE recv_after

\* callable.with_types(m, kernel)
DoWithTypes ==
    \E m \in TypeMaps(callable) : \E r \in WithTypes(callable, m) :
        Applied("with_types", r, callable, m, m, <<>>)

\* callable.with_descrs(m) with a mapping of the caller's
DoWithDescrs ==
    \E m \in DescrMaps(callable) : \E o \in Orders(DOMAIN m) :
        LET d == WithDescrs(callable, m, o)
        IN  Applied("with_descrs", d.result, callable, m, d.passed_after, o)

\* callable.with_descrs(callable.arg_id_to_descr): the mapping passed is the
\* object the receiver holds
DoWithDescrsOwnMapping ==
    /\ callable.arg_id_to_descr /= Nil
    /\ \E o \in Orders(DOMAIN callable.arg_id_to_descr) :
        LET m == callable.arg_id_to_descr
            d == WithDescrs(callable, m, o)
        IN  Applied("with_descrs", d.result,
                    [callable EXCEPT !.arg_id_to_descr = d.passed_after],
                    m, d.passed_after, o)

\* callable.with_hw_axes_sizes(local_size, global_size), the arguments in the
\* order the InKernelCallable interface documents
DoWithHwAxesSizes ==
    Applied("with_hw_axes_sizes", WithHwAxesSizes(callable, "L", "G"),
            callable, Nil, Nil, <<>>)

\* callable.with_target(target)
DoWithTarget ==
    \E target \in {None, KernelTarget} :
        Applied("with_target", WithTarget(callable, target),
                callable, Nil, Nil, <<>>)

\* the naming service gives a CallableKernel its name in the target:
\* in_knl_callable.copy(name_in_target=unique_var)
DoAssignName ==
    /\ callable.kind = "CallableKernel"
    /\ Applied("copy",
               Returned(MakeCallableKernel(callable.subkernel,
                    callable.arg_id_to_dtype, callable.arg_id_to_descr, "f_0")),
               callable, Nil, Nil, <<>>)

CallableNext ==
    \/ DoWithTypes
    \/ DoWithDescrs
    \/ DoWithDescrsOwnMapping
    \/ DoWithHwAxesSizes
    \/ DoWithTarget
    \/ DoAssignName

(***************************************************************************)
(* Part 3: the scoped-function naming service (function_interface.py)      *)
(***************************************************************************)
\* How the names are spelled: the word a name starts with, then underscores
\* and digits.
Spelling ==
    ("f" :> <<"f">>) @@ ("f_" :> <<"f", "_">>) @@ ("f_0" :> <<"f", "_", "0">>)
    @@ ("f_1" :> <<"f", "_", "1">>) @@ ("f_2" :> <<"f", "_", "2">>)
    @@ ("f_3" :> <<"f", "_", "3">>) @@ ("f_4" :> <<"f", "_", "4">>)
    @@ ("f_5" :> <<"f", "_", "5">>)
    @@ ("f_7" :> <<"f", "_", "7">>) @@ ("f_8" :> <<"f", "_", "8">>)
    @@ ("g" :> <<"g">>) @@ ("g_0" :> <<"g", "_", "0">>)
    @@ ("g_1" :> <<"g", "_", "1">>) @@ ("g_2" :> <<"g", "_", "2">>)
    @@ ("g_3" :> <<"g", "_", "3">>) @@ ("g_4" :> <<"g", "_", "4">>)
    @@ ("g_5" :> <<"g", "_", "5">>)
    @@ ("sin" :> <<"sin">>) @@ ("sin_0" :> <<"sin", "_", "0">>)
    @@ ("sin_1" :> <<"sin", "_", "1">>) @@ ("sin_2" :> <<"sin", "_", "2">>)
    @@ ("sin_3" :> <<"sin", "_", "3">>) @@ ("sin_4" :> <<"sin", "_", "4">>)
    @@ ("sin_5" :> <<"sin", "_", "5">>)

Spelled(chars) == CHOOSE s \in DOMAIN Spelling : Spelling[s] = chars

DigitChars == <<"0", "1", "2", "3", "4", "5", "6", "7", "8", "9">>

IsDigit(ch) == \E d \in DOMAIN DigitChars : DigitChars[d] = ch

\* int(num)
RECURSIVE NumberOf(_)
NumberOf(digits) ==
    IF digits = <<>> THEN 0
    ELSE 10 * NumberOf(SubSeq(digits, 1, Len(digits) - 1))
            + (CHOOSE d \in DOMAIN DigitChars :
                    DigitChars[d] = digits[Len(digits)]) - 1

\* "{num}".format(num=n)
RECURSIVE DigitsOf(_)
DigitsOf(n) ==
    IF n < 10 THEN <<DigitChars[n + 1]>>
    ELSE DigitsOf(n \div 10) \o <<DigitChars[(n % 10) + 1]>>

\* next_indexed_variable: the name is matched against ^(\S+?)_(\d+?)$; a
\* match gives alpha_(num+1), no match gives name0 after a trailing
\* underscore and name_0 otherwise
next_indexed_variable(function) ==
    LET chars == Spelling[function]
        n == Len(chars)
        splits == {k \in 2..(n - 1) :
                    /\ chars[k] = "_"
                    /\ \A j \in (k + 1)..n : IsDigit(chars[j])}
    IN  IF splits = {}
        THEN IF chars[n] = "_" THEN Spelled(chars \o <<"0">>)
             ELSE Spelled(chars \o <<"_", "0">>)
        ELSE LET k == CHOOSE s \in splits : \A t \in splits : s <= t
             IN  Spelled(SubSeq(chars, 1, k - 1) \o <<"_">>
                    \o DigitsOf(NumberOf(SubSeq(chars, k + 1, n)) + 1))

\* a bug: the first candidate is taken, in use or not
UniqueVarUnchecked(unique_var, names_to_functions) == unique_var

\* "keep on finding new names till a unique one is found"
RECURSIVE UniqueVar(_, _)
UniqueVar(unique_var, names_to_functions) ==
    IF unique_var \in DOMAIN names_to_functions
    THEN UniqueVar(next_indexed_variable(unique_var), names_to_functions)
    ELSE unique_var

\* a call expression: the function's name and the parameters
Call(function, parameters) == [function |-> function, parameters |-> parameters]

\* the book-keeping of register_pymbolic_calls_to_knl_callables
Registry(names_to_functions, functions_to_names, calls_to_new_names) ==
    [scoped_names_to_functions |-> names_to_functions,
     scoped_functions_to_names |-> functions_to_names,
     pymbolic_calls_to_new_names |-> calls_to_new_names]

\* one round of the loop over pymbolic_exprs_to_knl_callables.items(): a
\* callable that is no key of scoped_functions_to_names gets a new name; a
\* CallableKernel is stored as its copy with that name in the target
RegisterCall(reg, pymbolic_call, in_knl_callable) ==
    IF in_knl_callable \notin DOMAIN reg.scoped_functions_to_names
    THEN LET unique_var ==
                UniqueVar(next_indexed_variable(pymbolic_call.function),
                          reg.scoped_names_to_functions)
             stored == IF in_knl_callable.kind = "CallableKernel"
                       THEN MakeCallableKernel(in_knl_callable.subkernel,
                                in_knl_callable.arg_id_to_dtype,
                                in_knl_callable.arg_id_to_descr, unique_var)
                       ELSE in_knl_callable
         IN  Registry(
                (unique_var :> stored) @@ reg.scoped_names_to_functions,
                (stored :> unique_var) @@ reg.scoped_functions_to_names,
                (pymbolic_call :> unique_var) @@ reg.pymbolic_calls_to_new_names)
    ELSE Registry(
            reg.scoped_names_to_functions,
            reg.scoped_functions_to_names,
            (pymbolic_call :> reg.scoped_functions_to_names[in_knl_callable])
                @@ reg.pymbolic_calls_to_new_names)

\* ScopedFunctionNameChanger.map_call on one call expression of the kernel
ChangeName(expr, expr_to_new_names) ==
    IF expr \in DOMAIN expr_to_new_names
    THEN Call(expr_to_new_names[expr], expr.parameters)
    ELSE expr

\* the callables that calls resolve to: sin for single and for double
\* precision, sin from a mangler, and a nested kernel "y = f(x)" specialized
\* for single and for double precision
SinF32 ==
    MakeScalarCallable("sin", [id \in {"0", "-1"} |-> F32], Nil, "sinf")

SinF64 ==
    MakeScalarCallable("sin", [id \in {"0", "-1"} |-> F64], Nil, "sin")

Specialized(c, m) == (CHOOSE r \in WithTypes(c, m) : r.outcome = "ok").callable

MangledSin ==
    Specialized(MakeManglerCallable("sin", "exact", Nil, Nil, None),
                [id \in {"0"} |-> F32])

NestedKernel ==
    MakeCallableKernel(
        SubKernel(<<KernelArg("x", "in"), KernelArg("y", "out")>>),
        Nil, Nil, None)

KernelF32 == Specialized(NestedKernel, [id \in {"0"} |-> F32])

KernelF64 == Specialized(NestedKernel, [id \in {"0"} |-> F64])

\* what a call can resolve to
Resolutions(function) ==
    CASE function = "f" -> {KernelF32, KernelF64}
      [] function = "f_" -> {KernelF32}
      [] function = "sin" -> {SinF32, SinF64, MangledSin}

CallExprs ==
    {Call("f", "x"), Call("f", "y"), Call("f_", "x"),
     Call("sin", "x"), Call("sin", "y")}

\* the items of pymbolic_exprs_to_knl_callables: at most MaxCalls call
\* expressions, each a key once, in the order the dict gives them
CallItems ==
    UNION { { [call |-> e, callable |-> c] : c \in Resolutions(e.function) } :
            e \in CallExprs }

ExprsToCallables ==
    UNION { { s \in [1..n -> CallItems] :
                \A k, l \in 1..n : s[k].call = s[l].call => k = l }
            : n \in 0..MaxCalls }

\* the scoped functions the kernel has from earlier rounds
EarlierScopedFunctions ==
    { <<>>,
      ("f_0" :> MakeCallableKernel(KernelF64.subkernel, KernelF64.arg_id_to_dtype,
                                   Nil, "f_0"))
        @@ ("sin_0" :> SinF64) }

\* the kernel: the call expressions in its instructions, and its scoped
\* functions
NamingKernel(calls, scoped_functions) ==
    [calls |-> calls, scoped_functions |-> scoped_functions]

NamingInit ==
    /\ pymbolic_exprs_to_knl_callables \in ExprsToCallables
    /\ \E earlier \in EarlierScopedFunctions :
       \E others \in {<<>>, <<Call("sin_0", "z")>>} :
            /\ others /= <<>> => "sin_0" \in DOMAIN earlier
            /\ naming_kernel =
                NamingKernel(
                    [k \in DOMAIN pymbolic_exprs_to_knl_callables |->
                        pymbolic_exprs_to_knl_callables[k].call] \o others,
                    earlier)
            /\ registry = Registry(earlier, <<>>, <<>>)
    /\ call_pos = 1
    /\ naming_pc = "loop"
    /\ scoped_kernel = Nil

\* the loop body for a callable that is not in scoped_functions_to_names
RegisterNewCallable ==
    /\ naming_pc = "loop"
    /\ call_pos \in DOMAIN pymbolic_exprs_to_knl_callables
    /\ LET item == pymbolic_exprs_to_knl_callables[call_pos]
       IN  /\ item.callable \notin DOMAIN registry.scoped_functions_to_names
           /\ registry' = RegisterCall(registry, item.call, item.callable)
    /\ call_pos' = call_pos + 1
    /\ UNCHANGED <<pymbolic_exprs_to_knl_callables, naming_kernel, naming_pc,
                   scoped_kernel>>

\* the loop body for a callable that is in scoped_functions_to_names
ReuseName ==
    /\ naming_pc = "loop"
    /\ call_pos \in DOMAIN pymbolic_exprs_to_knl_callables
    /\ LET item == pymbolic_exprs_to_knl_callables[call_pos]
       IN  /\ item.callable \in DOMAIN registry.scoped_functions_to_names
           /\ registry' = RegisterCall(registry, item.call, item.callable)
    /\ call_pos' = call_pos + 1
    /\ UNCHANGED <<pymbolic_exprs_to_knl_callables, naming_kernel, naming_pc,
                   scoped_kernel>>

\* scope_changer.map_kernel(kernel) and the return
ReturnScopedKernel ==
    /\ naming_pc = "loop"
    /\ call_pos \notin DOMAIN pymbolic_exprs_to_knl_callables
    /\ naming_pc' = "done"
    /\ scoped_kernel' =
        NamingKernel(
            [k \in DOMAIN naming_kernel.calls |->
                ChangeName(naming_kernel.calls[k],
                           registry.pymbolic_calls_to_new_names)],
            registry.scoped_names_to_functions)
    /\ UNCHANGED <<pymbolic_exprs_to_knl_callables, naming_kernel, registry,
                   call_pos>>

\* map_call on a call that gets no new name hands the mapper itself to the
\* base class's map_call as an extra argument; a base class that does not
\* take it raises TypeError
RaiseOnUnchangedCall ==
    /\ naming_pc = "loop"
    /\ call_pos \notin DOMAIN pymbolic_exprs_to_knl_callables
    /\ \E k \in DOMAIN naming_kernel.calls :
            naming_kernel.calls[k] \notin DOMAIN registry.pymbolic_calls_to_new_names
    /\ naming_pc' = "TypeError"
    /\ UNCHANGED <<pymbolic_exprs_to_knl_callables, naming_kernel, registry,
                   call_pos, scoped_kernel>>

NamingNext ==
    \/ RegisterNewCallable
    \/ ReuseName
    \/ ReturnScopedKernel
    \/ RaiseOnUnchangedCall

(***************************************************************************)
(* Part 4: inlining of nested kernels (transform/callable.py)              *)
(***************************************************************************)
\* An instruction of a kernel.  Ids are tuples: <<name>> for the ids that
\* instructions are built with, <<label, name, n>> for the ids that the
\* instruction id generator makes from label+name.  A CallInstruction has the
\* kind "call", any other assignment "assign", a NoOpInstruction "noop"; the
\* expression is the call in it, if any.  An instruction is within no inames
\* and has the priority 0 unless it is built otherwise.
Insn(id, depends_on, kind, expression) ==
    [id |-> id, depends_on |-> depends_on, kind |-> kind,
     expression |-> expression, within_inames |-> {}, priority |-> 0]

\* a kernel: its instructions and its scoped functions; its domains (each the
\* set of its inames), the tags of its inames and its temporaries are empty
\* unless it is built otherwise.  Names of variables are tuples as ids are.
Kernel(insns, scoped_functions) ==
    [instructions |-> insns, scoped_functions |-> scoped_functions,
     domains |-> <<>>, iname_to_tags |-> <<>>, temporary_variables |-> <<>>]

\* a temporary variable of the given name
TemporaryVariable(name) == [name |-> name, shape |-> <<>>]

RECURSIVE Concat(_)
Concat(seqs) == IF seqs = <<>> THEN <<>> ELSE Head(seqs) \o Concat(Tail(seqs))

\* a nested kernel "y = f(x)" with the given instructions and scoped
\* functions; it has the inames i, tagged, and j, and the temporary t
CalleeKernel(name, insns, scoped_functions) ==
    [name |-> name, target |-> "T",
     args |-> <<KernelArg("x", "in"), KernelArg("y", "out")>>,
     grid_override |-> Nil,
     instructions |-> insns, scoped_functions |-> scoped_functions,
     domains |-> <<{<<"i">>, <<"j">>}>>,
     iname_to_tags |-> (<<"i">> :> {"g.0"}),
     temporary_variables |-> (<<"t">> :> TemporaryVariable(<<"t">>))]

\* the callable that the caller's scoped functions hold for a nested kernel:
\* specialized, and named in the target
ScopedCallableKernel(callee_knl, name_in_target) ==
    LET typed == Specialized(MakeCallableKernel(callee_knl, Nil, Nil, None),
                             [id \in {"0"} |-> F32])
    IN  MakeCallableKernel(typed.subkernel, typed.arg_id_to_dtype,
                           [id \in {"0", "-1"} |-> ValueArgDescriptor],
                           name_in_target)

\* kernel.get_instruction_id_generator()(label+name): an id no instruction
\* of the kernel has
NewId(kernel, label, name) ==
    <<label, name,
      Cardinality({k \in DOMAIN kernel.instructions :
                    /\ Len(kernel.instructions[k].id) = 3
                    /\ kernel.instructions[k].id[1] = label
                    /\ kernel.instructions[k].id[2] = name})>>

\* callee_knl.name[:4] + "_" (the names of the nested kernels have up to
\* four characters; the underscore is in the spelling of the generated id)
CalleeLabel(callee_knl) == callee_knl.name

\* callee_knl.recursive_insn_dep_map(): instruction id -> the ids it depends
\* on, directly or through others
RECURSIVE DepsWithin(_, _, _)
DepsWithin(insns, ids, n) ==
    IF n = 0 THEN ids
    ELSE DepsWithin(insns,
            ids \cup UNION {insns[k].depends_on :
                                k \in {m \in DOMAIN insns : insns[m].id \in ids}},
            n - 1)

RecursiveInsnDepMap(knl) ==
    [id \in {knl.instructions[k].id : k \in DOMAIN knl.instructions} |->
        LET insn == CHOOSE i \in Range(knl.instructions) : i.id = id
        IN  DepsWithin(knl.instructions, insn.depends_on, Len(knl.instructions))]

\* a bug: no call is collected
NoScopedCalls(insns, callee_scoped_functions, seen) == <<>>

\* the calls in the kernel's instructions whose function is a name of the
\* callee's scoped functions, each with the callee's callable of that name:
\* the items of callee_scoped_calls_dict
RECURSIVE CalleeScopedCalls(_, _, _)
CalleeScopedCalls(insns, callee_scoped_functions, seen) ==
    IF insns = <<>> THEN <<>>
    ELSE LET insn == Head(insns)
             collected ==
                /\ insn.kind \in {"call", "assign"}
                /\ insn.expression /= Nil
                /\ insn.expression.function \in DOMAIN callee_scoped_functions
                /\ insn.expression \notin seen
         IN  IF collected
             THEN <<[call |-> insn.expression,
                     callable |->
                        callee_scoped_functions[insn.expression.function]]>>
                    \o CalleeScopedCalls(Tail(insns), callee_scoped_functions,
                                         seen \cup {insn.expression})
             ELSE CalleeScopedCalls(Tail(insns), callee_scoped_functions, seen)

\* change_names_of_pymbolic_calls(kernel, callee_scoped_calls_dict): the
\* naming service on the calls collected
RECURSIVE RegisterCalls(_, _)
RegisterCalls(reg, items) ==
    IF items = <<>> THEN reg
    ELSE RegisterCalls(RegisterCall(reg, Head(items).call, Head(items).callable),
                       Tail(items))

change_names_of_pymbolic_calls(kernel, items) ==
    LET reg == RegisterCalls(Registry(kernel.scoped_functions, <<>>, <<>>), items)
    IN  [kernel EXCEPT
            !.instructions =
                [k \in DOMAIN kernel.instructions |->
                    IF kernel.instructions[k].expression = Nil
                    THEN kernel.instructions[k]
                    ELSE [kernel.instructions[k] EXCEPT
                            !.expression =
                                ChangeName(@, reg.pymbolic_calls_to_new_names)]],
            !.scoped_functions = reg.scoped_names_to_functions]

\* kernel.all_inames(): the names of the dimensions of the domains
AllInames(kernel) == UNION Range(kernel.domains)

\* the names of the variables of a kernel that the name generator knows
AllVariableNames(kernel) ==
    AllInames(kernel) \cup DOMAIN kernel.temporary_variables

\* kernel.get_var_name_generator()(label+name) when the names in used are
\* taken: the first of the generator's candidates for label+name that is not
\* taken, <<label, name, n>> being the candidate of index n
NewVarName(used, label, name) ==
    <<label, name,
      CHOOSE n \in 0..Cardinality(used) :
            /\ <<label, name, n>> \notin used
            /\ \A m \in 0..(n - 1) : <<label, name, m>> \in used>>

\* a bug: the temporaries of the caller are not copied
NewTempsFromEmpty(kernel, callee_knl, temp_map) ==
    [n \in Range(temp_map) |->
        [callee_knl.temporary_variables[
            CHOOSE name \in DOMAIN temp_map : temp_map[name] = n]
         EXCEPT !.name = n]]

\* new_temps: a copy of the caller's temporaries and, under its new name,
\* a copy of every temporary of the nested kernel with the new name
NewTemps(kernel, callee_knl, temp_map) ==
    [n \in Range(temp_map) |->
        [callee_knl.temporary_variables[
            CHOOSE name \in DOMAIN temp_map : temp_map[name] = n]
         EXCEPT !.name = n]]
    @@ kernel.temporary_variables

\* roots depend on nothing
Heads(dep_map) == {insn \in DOMAIN dep_map : dep_map[insn] = {}}

\* a bug: every instruction of the nested kernel is taken for a leaf
TailsAll(dep_map) == DOMAIN dep_map

\* leaves have nothing that depends on them
Tails(dep_map) == DOMAIN dep_map \ UNION {dep_map[insn] : insn \in DOMAIN dep_map}

\* _inline_call_instruction(kernel, callee_knl, instruction): the kernel
\* returned, the ids of the start marker and of the spliced instructions, and
\* the three renamings
inline_call_instruction(kernel, callee_knl, instruction) ==
    LET callee_label == CalleeLabel(callee_knl)
        used == AllVariableNames(kernel)
        iname_map == [iname \in AllInames(callee_knl) |->
                        NewVarName(used, callee_label, iname[1])]
        new_iname_to_tags ==
            [n \in {iname_map[iname] : iname \in DOMAIN callee_knl.iname_to_tags} |->
                callee_knl.iname_to_tags[
                    CHOOSE iname \in DOMAIN callee_knl.iname_to_tags :
                        iname_map[iname] = n]]
            @@ kernel.iname_to_tags
        new_domains ==
            [d \in DOMAIN callee_knl.domains |->
                {iname_map[iname] : iname \in callee_knl.domains[d]}]
        used_by_inames == used \cup Range(iname_map)
        temp_map == [name \in DOMAIN callee_knl.temporary_variables |->
                        NewVarName(used_by_inames, callee_label, name[1])]
        new_temps == NewTemps(kernel, callee_knl, temp_map)
        callee_ids == {callee_knl.instructions[k].id :
                            k \in DOMAIN callee_knl.instructions}
        insn_id == [id \in callee_ids |-> NewId(kernel, callee_label, id[1])]
        dep_map == RecursiveInsnDepMap(callee_knl)
        heads == Heads(dep_map)
        tails == Tails(dep_map)
        noop_start ==
            [Insn(NewId(kernel, callee_label, "_start"),
                  instruction.depends_on, "noop", Nil)
             EXCEPT !.within_inames = instruction.within_inames]
        noop_end ==
            [Insn(instruction.id, {insn_id[id] : id \in tails}, "noop", Nil)
             EXCEPT !.within_inames = instruction.within_inames]
        inner_insns ==
            <<noop_start>>
            \o [k \in DOMAIN callee_knl.instructions |->
                    LET insn == callee_knl.instructions[k]
                    IN  [insn EXCEPT
                            !.id = insn_id[insn.id],
                            !.within_inames =
                                {iname_map[iname] : iname \in insn.within_inames}
                                    \cup instruction.within_inames,
                            !.priority = instruction.priority,
                            !.depends_on =
                                {insn_id[d] : d \in insn.depends_on}
                                    \cup instruction.depends_on
                                    \cup (IF insn.id \in heads
                                          THEN {noop_start.id} ELSE {})]]
            \o <<noop_end>>
        new_insns ==
            Concat([k \in DOMAIN kernel.instructions |->
                        IF kernel.instructions[k] = instruction
                        THEN inner_insns
                        ELSE <<kernel.instructions[k]>>])
    IN  [kernel |->
            change_names_of_pymbolic_calls(
                [kernel EXCEPT
                    !.domains = @ \o new_domains,
                    !.iname_to_tags = new_iname_to_tags,
                    !.temporary_variables = new_temps,
                    !.instructions = new_insns],
                CalleeScopedCalls(new_insns, callee_knl.scoped_functions, {})),
         start |-> noop_start.id,
         spliced |-> {insn_id[id] : id \in callee_ids},
         insn_id |-> insn_id,
         iname_map |-> iname_map,
         temp_map |-> temp_map]

\* the nested kernels.  The instructions of f: up to MaxCalleeInsns of them,
\* each depending on any of the earlier ones, at most one of them calling a
\* function that f's scoped functions name: sin_0, a scalar function, or g_0,
\* a nested kernel.  The first instruction is within i, the others within i
\* and j.
CalleeIds == <<"a", "b", "c", "d">>

CalleeInsns ==
    UNION { { [k \in 1..n |->
                [Insn(<<CalleeIds[k]>>, {<<CalleeIds[d]>> : d \in deps[k]}, "assign",
                      IF k = calling THEN Call(helper, "a") ELSE Nil)
                 EXCEPT !.within_inames =
                            IF k = 1 THEN {<<"i">>} ELSE {<<"i">>, <<"j">>}]] :
              deps \in { ds \in [1..n -> SUBSET (1..n)] :
                            \A k \in 1..n : \A d \in ds[k] : d < k },
              calling \in 0..n,
              helper \in {"sin_0", "g_0"} }
            : n \in 0..MaxCalleeInsns }

CalleeG == CalleeKernel("g", <<Insn(<<"a">>, {}, "assign", Nil)>>, <<>>)

CalleeF ==
    { CalleeKernel("f", insns, sf) :
        insns \in CalleeInsns,
        sf \in {<<>>, ("sin_0" :> SinF32),
                ("sin_0" :> SinF32)
                    @@ ("g_0" :> ScopedCallableKernel(CalleeG, "g_0"))} }

CalleesF ==
    { knl \in CalleeF :
        \A k \in DOMAIN knl.instructions :
            knl.instructions[k].expression /= Nil
                => knl.instructions[k].expression.function
                        \in DOMAIN knl.scoped_functions }

\* the callers: up to MaxCallerInsns instructions, each a call of f_0, a call
\* of g_0, an assignment that calls sin_0 or an assignment without a call;
\* none depends on another, or each on the one before, or all on the first.
\* Every instruction is within the caller's iname i, which is tagged, and has
\* a priority of its own; the caller has the temporary t and a temporary
\* with the name of the generator's first candidate for f_0's temporary.
CallerIds == <<"c1", "c2", "c3", "c4">>

CallerKinds == {"call f_0", "call g_0", "sin_0", "plain"}

CallerInsn(k, what, depends_on) ==
    [Insn(<<CallerIds[k]>>, depends_on,
          IF what \in {"call f_0", "call g_0"} THEN "call" ELSE "assign",
          CASE what = "call f_0" -> Call("f_0", "x")
            [] what = "call g_0" -> Call("g_0", "x")
            [] what = "sin_0" -> Call("sin_0", "x")
            [] what = "plain" -> Nil)
     EXCEPT !.within_inames = {<<"i">>}, !.priority = k]

CallerDeps(pattern, k) ==
    CASE k = 1 -> {}
      [] k > 1 /\ pattern = "none" -> {}
      [] k > 1 /\ pattern = "chain" -> {<<CallerIds[k - 1]>>}
      [] k > 1 /\ pattern = "fan" -> {<<CallerIds[1]>>}

CallerInsns ==
    UNION { { [k \in 1..n |-> CallerInsn(k, what[k], CallerDeps(pattern, k))] :
              what \in [1..n -> CallerKinds],
              pattern \in {"none", "chain", "fan"} }
            : n \in 1..MaxCallerInsns }

Callers ==
    { [Kernel(insns,
              ("f_0" :> ScopedCallableKernel(f, "f_0"))
                 @@ ("g_0" :> ScopedCallableKernel(CalleeG, "g_0"))
                 @@ ("sin_0" :> SinF64))
       EXCEPT !.domains = <<{<<"i">>}>>,
              !.iname_to_tags = (<<"i">> :> {"l.0"}),
              !.temporary_variables =
                    (<<"t">> :> TemporaryVariable(<<"t">>))
                    @@ (<<"f_0", "t", 0>> :> TemporaryVariable(<<"f_0", "t", 0>>))] :
        insns \in CallerInsns, f \in CalleesF }

\* inline_callable_kernel(kernel, function_name), from the kernel that
\* infer_arg_descr returns
InlineInit ==
    /\ inl_kernel \in Callers
    /\ function_name \in {"f_0", "g_0"}
    /\ old_insns = inl_kernel.instructions
    /\ original = inl_kernel
    /\ insn_pos = 1
    /\ inlined = Nil
    /\ inl_pc = "loop"

\* the test of the loop of inline_callable_kernel on an instruction
CallsNestedKernel(kernel, insn, name) ==
    /\ insn.kind = "call"
    /\ insn.expression.function \in DOMAIN kernel.scoped_functions
    /\ kernel.scoped_functions[insn.expression.function].kind = "CallableKernel"
    /\ kernel.scoped_functions[insn.expression.function].subkernel.name = name

\* the loop body for a call of the nested kernel
InlineCallInstruction ==
    /\ inl_pc = "loop"
    /\ insn_pos \in DOMAIN old_insns
    /\ CallsNestedKernel(inl_kernel, old_insns[insn_pos], function_name)
    /\ LET insn == old_insns[insn_pos]
           in_knl_callable == inl_kernel.scoped_functions[insn.expression.function]
           r == inline_call_instruction(inl_kernel, in_knl_callable.subkernel, insn)
       IN  /\ inl_kernel' = r.kernel
           /\ inlined' = [kernel |-> inl_kernel, instruction |-> insn,
                          callee_knl |-> in_knl_callable.subkernel,
                          start |-> r.start, spliced |-> r.spliced,
                          insn_id |-> r.insn_id, iname_map |-> r.iname_map,
                          temp_map |-> r.temp_map]
    /\ insn_pos' = insn_pos + 1
    /\ UNCHANGED <<function_name, old_insns, original, inl_pc>>

\* the loop body for any other instruction
PassInstruction ==
    /\ inl_pc = "loop"
    /\ insn_pos \in DOMAIN old_insns
    /\ ~CallsNestedKernel(inl_kernel, old_insns[insn_pos], function_name)
    /\ insn_pos' = insn_pos + 1
    /\ UNCHANGED <<inl_kernel, inlined, function_name, old_insns, original, inl_pc>>

\* return kernel
ReturnInlined ==
    /\ inl_pc = "loop"
    /\ insn_pos \notin DOMAIN old_insns
    /\ inl_pc' = "done"
    /\ UNCHANGED <<inl_kernel, inlined, function_name, old_insns, original,
                   insn_pos>>

InlineNext ==
    \/ InlineCallInstruction
    \/ PassInstruction
    \/ ReturnInlined

(***************************************************************************)
(* Part 5: index remapping (KernelInliner.map_subscript)                   *)
(***************************************************************************)
\* an array as map_subscript sees it: the shape and the strides of its
\* dim_tags, in declaration order.  The dimensions in symbolic have an
\* expression in the kernel's parameters as their extent: shape holds the
\* value it takes.
ArrayArg(shape, strides) == [shape |-> shape, strides |-> strides, symbolic |-> {}]

\* the array with the given dimensions' extents symbolic
WithSymbolicDims(arg, dims) == [arg EXCEPT !.symbolic = dims]

\* all(isinstance(d, Integral) for d in arg.shape)
HasConstantShape(arg) == arg.symbolic = {}

\* the dimensions whose extent can be symbolic while every stride is a
\* number: those of the largest stride
OutermostDims(arg) ==
    {d \in DOMAIN arg.strides : \A e \in DOMAIN arg.strides :
        arg.strides[e] <= arg.strides[d]}

\* sum(idx * stride for idx, stride in zip(indices, strides))
RECURSIVE Dot(_, _)
Dot(indices, strides) ==
    IF indices = <<>> \/ strides = <<>> THEN 0
    ELSE Head(indices) * Head(strides) + Dot(Tail(indices), Tail(strides))

\* the loop over caller_arg.dim_tags: ind = flatten_index // stride, then
\* flatten_index -= stride * ind
RECURSIVE Unflatten(_, _)
Unflatten(flatten_index, strides) ==
    IF strides = <<>> THEN <<>>
    ELSE LET ind == flatten_index \div Head(strides)
         IN  <<ind>> \o Unflatten(flatten_index - Head(strides) * ind,
                                  Tail(strides))

\* map_subscript on a subscript of a bound array argument: begin is the index
\* tuple of sar.get_begin_subscript(), outer_indices the callee's indices
\* mapped to the caller's inames
MapSubscript(caller_arg, callee_arg, begin, outer_indices) ==
    Unflatten(Dot(begin, caller_arg.strides)
                + Dot(outer_indices, callee_arg.strides),
              caller_arg.strides)

\* the index tuples of an array of the given shape
RECURSIVE IndexTuples(_)
IndexTuples(shape) ==
    IF shape = <<>> THEN {<<>>}
    ELSE {<<i>> \o rest : i \in 0..(Head(shape) - 1),
                          rest \in IndexTuples(Tail(shape))}

\* the caller's arrays: row-major and column-major
CallerArgs ==
    { ArrayArg(<<3, 2>>, <<2, 1>>), ArrayArg(<<3, 2>>, <<1, 3>>),
      ArrayArg(<<2, 3>>, <<3, 1>>), ArrayArg(<<6>>, <<1>>) }

\* the callee's arguments: one or two dimensions
CalleeArgs ==
    { ArrayArg(<<n>>, <<s>>) : n \in {2, 3, 6}, s \in {1, 2, 3} }
    \cup { ArrayArg(<<n, m>>, <<s, t>>) :
            n \in {2, 3}, m \in {2, 3}, s \in {1, 2, 3}, t \in {1, 2, 3} }

\* every element of the callee's argument is an element of the caller's array
BoundInside(caller_arg, callee_arg, begin) ==
    \A inner \in IndexTuples(callee_arg.shape) :
        \E j \in IndexTuples(caller_arg.shape) :
            Dot(j, caller_arg.strides)
                = Dot(begin, caller_arg.strides) + Dot(inner, callee_arg.strides)

RemapInit ==
    /\ \E caller_arg \in CallerArgs, callee_arg \in CalleeArgs :
       \E begin \in IndexTuples(caller_arg.shape) :
       \E inner \in IndexTuples(callee_arg.shape) :
       \E caller_dims \in {{}, OutermostDims(caller_arg)} :
       \E callee_dims \in {{}, OutermostDims(callee_arg)} :
            /\ BoundInside(caller_arg, callee_arg, begin)
            /\ subscript = [caller_arg |-> WithSymbolicDims(caller_arg, caller_dims),
                            callee_arg |-> WithSymbolicDims(callee_arg, callee_dims),
                            begin |-> begin, index_tuple |-> inner]
    /\ new_indices = <<>>
    /\ remap_pc = "call"

\* the check of the callee argument's shape in map_subscript: the message of
\* the LoopyError has the fields {0} and {1} and is formatted with one
\* argument, which raises IndexError
CheckConstantShape(callee_arg) ==
    IF HasConstantShape(callee_arg) THEN "ok" ELSE "IndexError"

\* subst_mapper.map_subscript(expr)
DoMapSubscript ==
    /\ remap_pc = "call"
    /\ IF CheckConstantShape(subscript.callee_arg) = "ok"
       THEN /\ new_indices' = MapSubscript(subscript.caller_arg,
                                    subscript.callee_arg, subscript.begin,
                                    subscript.index_tuple)
            /\ remap_pc' = "done"
       ELSE /\ new_indices' = new_indices
            /\ remap_pc' = CheckConstantShape(subscript.callee_arg)
    /\ UNCHANGED subscript

RemapNext == DoMapSubscript

(***************************************************************************)
(* Part 6: register_callable_kernel and the argument matching of inlining  *)
(* (transform/callable.py)                                                 *)
(***************************************************************************)
\* an instruction of the caller, as far as the registration looks at it:
\* its class, and for a call the function's name, the assignees and the
\* parameters
RegInsn(id, class, function, assignees, parameters) ==
    [id |-> id, class |-> class, function |-> function,
     assignees |-> assignees, parameters |-> parameters]

\* an argument of the callee kernel, after infer_arg_is_output_only
CalleeArg(name, is_output_only) == [name |-> name, is_output_only |-> is_output_only]

\* _RegisterCalleeKernel(function_name, callable_kernel): a record, equal to
\* another one with equal fields
RegisterCalleeKernel(name, callable_kernel) ==
    [function_name |-> name, callable_kernel |-> callable_kernel]

\* CallableKernel(subkernel=callee_kernel.copy(name=function_name, ...))
RegisteredCallable(name, callee_kernel) ==
    [kind |-> "CallableKernel", subkernel |-> [callee_kernel EXCEPT !.name = name]]

\* len([arg for arg in callee_kernel.args if arg.is_output_only])
ExpectedNumAssignees(callee_kernel) ==
    Cardinality({k \in DOMAIN callee_kernel.args :
                    callee_kernel.args[k].is_output_only})

ExpectedNumParameters(callee_kernel) ==
    Len(callee_kernel.args) - ExpectedNumAssignees(callee_kernel)

\* Python's "!=" of a tuple and an integer: they are never equal
TupleDiffersFromInt(tuple, int) == TRUE

\* the sanity check of register_callable_kernel on one instruction: the
\* function's name is compared with the string 'function_name', the tuple of
\* assignees with the expected number
SanityCheck(insn, callee_kernel) ==
    IF insn.class = "CallInstruction" /\ insn.function = "function_name"
    THEN IF TupleDiffersFromInt(insn.assignees, ExpectedNumAssignees(callee_kernel))
         THEN "LoopyError"
         ELSE "AttributeError"
    ELSE IF insn.class \in {"CallInstruction", "Assignment", "CInstruction",
                            "NoOpInstruction"}
    THEN "ok"
    ELSE "NotImplementedError"

\* register_function_lookup: new_function_scopers is bound only when the
\* lookup is not yet among the kernel's function scopers
RegisterFunctionLookup(kernel, function_lookup) ==
    IF \E k \in DOMAIN kernel.function_scopers :
            kernel.function_scopers[k] = function_lookup
    THEN Raised("UnboundLocalError")
    ELSE [outcome |-> "ok",
          callable |-> [kernel EXCEPT
                !.function_scopers = Append(@, function_lookup)]]

\* the argument matching of _inline_call_instruction: the callee's arguments
\* in declaration order take the next assignee (output-only) or the next
\* parameter
RECURSIVE MatchArguments(_, _, _, _, _)
MatchArguments(args, assignees, parameters, assignee_pos, parameter_pos) ==
    IF args = <<>> THEN [err |-> None, arg_map |-> <<>>]
    ELSE
        LET arg == Head(args)
            from == IF arg.is_output_only THEN assignees ELSE parameters
            at == IF arg.is_output_only THEN assignee_pos ELSE parameter_pos
        IN  IF at + 1 \notin DOMAIN from
            THEN [err |-> "IndexError", arg_map |-> <<>>]
            ELSE
                LET rest == MatchArguments(Tail(args), assignees, parameters,
                                IF arg.is_output_only THEN assignee_pos + 1
                                ELSE assignee_pos,
                                IF arg.is_output_only THEN parameter_pos
                                ELSE parameter_pos + 1)
                IN  IF rest.err /= None THEN rest
                    ELSE [err |-> None,
                          arg_map |-> (arg.name :> from[at + 1]) @@ rest.arg_map]

\* the callee kernels: one input; an input and an output, in both orders
RegCallees ==
    { [name |-> "callee", args |-> a] :
        a \in { <<CalleeArg("x", FALSE)>>,
                <<CalleeArg("x", FALSE), CalleeArg("y", TRUE)>>,
                <<CalleeArg("y", TRUE), CalleeArg("x", FALSE)>> } }

\* the names a kernel is registered under
RegNames == {"f", "function_name"}

RegInsnIds == <<"i1", "i2", "i3">>

\* the instructions of the caller: calls with up to two assignees and up to
\* two parameters, an assignment, and an instruction of a class the
\* registration does not know
RegInsnsAt(k) ==
    { RegInsn(RegInsnIds[k], "CallInstruction", f, a, p) :
        f \in RegNames,
        a \in {<<>>, <<"o1">>, <<"o1", "o2">>},
        p \in {<<>>, <<"p1">>, <<"p1", "p2">>} }
    \cup { RegInsn(RegInsnIds[k], "Assignment", None, <<"o1">>, <<>>),
           RegInsn(RegInsnIds[k], "Unknown", None, <<>>, <<>>) }

RegisterInit ==
    /\ reg_function_name \in RegNames
    /\ reg_callee \in RegCallees
    /\ \E n \in 1..MaxRegInsns :
        \E insns \in [1..n -> UNION {RegInsnsAt(k) : k \in 1..n}] :
            /\ \A k \in 1..n : insns[k] \in RegInsnsAt(k)
            /\ \E scopers \in
                    { <<>>,
                      <<RegisterCalleeKernel("g",
                            RegisteredCallable("g", reg_callee))>>,
                      <<RegisterCalleeKernel(reg_function_name,
                            RegisteredCallable(reg_function_name, reg_callee))>> } :
                 reg_caller = [instructions |-> insns, function_scopers |-> scopers]
    /\ reg_pos = 1
    /\ reg_pc = "checking"
    /\ reg_kernel = Nil
    /\ reg_arg_map = Nil

\* one turn of the loop of sanity checks
CheckInstruction ==
    /\ reg_pc = "checking"
    /\ reg_pos \in DOMAIN reg_caller.instructions
    /\ LET r == SanityCheck(reg_caller.instructions[reg_pos], reg_callee)
       IN  IF r = "ok"
           THEN reg_pos' = reg_pos + 1 /\ reg_pc' = reg_pc
           ELSE reg_pos' = reg_pos /\ reg_pc' = r
    /\ UNCHANGED <<reg_caller, reg_function_name, reg_callee, reg_kernel,
                   reg_arg_map>>

\* after the loop: the callable kernel is made and its lookup registered
RegisterLookup ==
    /\ reg_pc = "checking"
    /\ reg_pos \notin DOMAIN reg_caller.instructions
    /\ LET r == RegisterFunctionLookup(reg_caller,
                    RegisterCalleeKernel(reg_function_name,
                        RegisteredCallable(reg_function_name, reg_callee)))
       IN  IF r.outcome = "ok"
           THEN reg_kernel' = r.callable /\ reg_pc' = "registered"
           ELSE reg_kernel' = Nil /\ reg_pc' = r.outcome
    /\ UNCHANGED <<reg_caller, reg_function_name, reg_callee, reg_pos,
                   reg_arg_map>>

\* the calls of the registered kernel in the kernel returned
CallsOfRegistered ==
    {k \in DOMAIN reg_kernel.instructions :
        /\ reg_kernel.instructions[k].class = "CallInstruction"
        /\ reg_kernel.instructions[k].function = reg_function_name}

\* inlining comes to a call of the registered kernel and matches the callee's
\* arguments with the call's assignees and parameters, before it splices
MatchKernelArguments ==
    /\ reg_pc = "registered"
    /\ CallsOfRegistered /= {}
    /\ LET k == CHOOSE n \in CallsOfRegistered :
                    \A o \in CallsOfRegistered : n <= o
           insn == reg_kernel.instructions[k]
           r == MatchArguments(reg_callee.args, insn.assignees,
                               insn.parameters, 0, 0)
       IN  /\ reg_pos' = k
           /\ IF r.err = None
              THEN reg_arg_map' = r.arg_map /\ reg_pc' = "splicing"
              ELSE reg_arg_map' = Nil /\ reg_pc' = r.err
    /\ UNCHANGED <<reg_caller, reg_function_name, reg_callee, reg_kernel>>

RegisterNext ==
    \/ CheckInstruction
    \/ RegisterLookup
    \/ MatchKernelArguments

(***************************************************************************)
(* Part 7: LoopKernel.__init__ and LoopKernel.sequential_inames (kernel.py)*)
(***************************************************************************)
\* Instruction ids and labels are strings of the form base_n1_n2...: they are
\* written as the sequence <<base, n1, n2, ...>>, so that "insn_0" the label
\* and "insn_0" the generated id are one value.  NoId is Python's None.
NoId == <<>>

\* the items of the instructions argument: a string "label: lhs = rhs" (label
\* NoId when there is none), an Instruction with or without an id, a string
\* whose left hand side is neither a variable nor a subscript, and an object
\* that is neither a string nor an Instruction.  reduction_inames are the
\* inames bound by reductions in the expression.
InsnString(label) ==
    [class |-> "str", label |-> label, id |-> NoId, reduction_inames |-> {}]

PrebuiltInstruction(id, reduction_inames) ==
    [class |-> "Instruction", label |-> NoId, id |-> id,
     reduction_inames |-> reduction_inames]

MalformedString ==
    [class |-> "str with bad lhs", label |-> NoId, id |-> NoId,
     reduction_inames |-> {}]

NotAnInstruction ==
    [class |-> "object", label |-> NoId, id |-> NoId, reduction_inames |-> {}]

\* _generate_unique_possibilities(prefix): prefix, then prefix_0, prefix_1, ...
UniquePossibility(prefix, k) == IF k = 0 THEN prefix ELSE Append(prefix, k - 1)

\* a bug: the id is based_on, whether it is used or not
MakeUniqueInstructionIdUnchecked(collected, based_on) == based_on

\* make_unique_instruction_id(insns, based_on): the first possibility that is
\* not the id of a collected instruction
MakeUniqueInstructionId(collected, based_on) ==
    LET used_ids == {collected[k].id : k \in DOMAIN collected}
        first == CHOOSE k \in 0..Len(collected) :
                    /\ UniquePossibility(based_on, k) \notin used_ids
                    /\ \A j \in 0..(k - 1) :
                            UniquePossibility(based_on, j) \in used_ids
    IN  UniquePossibility(based_on, first)

\* parse_if_necessary(insn) on one item: the list of collected instructions
\* after it, or the exception
ParseIfNecessary(collected, item) ==
    CASE item.class = "Instruction" ->
            [err |-> "None",
             insns |-> Append(collected,
                IF item.id = NoId
                THEN [item EXCEPT
                        !.id = MakeUniqueInstructionId(collected, <<"insn">>)]
                ELSE item)]
      [] item.class = "object" -> [err |-> "TypeError", insns |-> collected]
      [] item.class = "str with bad lhs" ->
            [err |-> "RuntimeError", insns |-> collected]
      [] item.class = "str" ->
            [err |-> "None",
             insns |-> Append(collected,
                [class |-> "Instruction", label |-> NoId,
                 id |-> MakeUniqueInstructionId(collected,
                            IF item.label /= NoId THEN item.label
                            ELSE <<"insn">>),
                 reduction_inames |-> item.reduction_inames])]

\* len(set(insn.id for insn in insns)) != len(insns)
IdsNotUnique(collected) ==
    Cardinality({collected[k].id : k \in DOMAIN collected}) /= Len(collected)

\* the tags of inames: ParallelTag and its subclasses, and UnrollTag, which is
\* an IndexTag only
ParallelTags == {"l.0"}

IndexTags == ParallelTags \cup {"unr"}

\* a bug: sequential_inames does not look at the tags
SequentialInamesUntested(collected, iname_to_tag) ==
    [err |-> "None",
     result |-> UNION {collected[k].reduction_inames : k \in DOMAIN collected}]

\* LoopKernel.sequential_inames: the inames of every reduction in the
\* instructions' expressions; RuntimeError when one of them has a parallel tag
SequentialInames(collected, iname_to_tag) ==
    LET result == UNION {collected[k].reduction_inames : k \in DOMAIN collected}
    IN  IF \E iname \in result :
                /\ iname \in DOMAIN iname_to_tag
                /\ iname_to_tag[iname] \in ParallelTags
        THEN [err |-> "RuntimeError", result |-> {}]
        ELSE [err |-> "None", result |-> result]

\* the items a kernel is constructed from
CtorItems ==
    { InsnString(l) : l \in {NoId, <<"insn", 0>>, <<"a">>} }
    \cup { PrebuiltInstruction(id, red) :
            id \in {NoId, <<"insn">>, <<"a">>}, red \in {{}, {"j"}} }
    \cup { PrebuiltInstruction(NoId, {"i", "j"}), MalformedString, NotAnInstruction }

CtorInit ==
    /\ ctor_input \in UNION { [1..n -> CtorItems] : n \in 0..MaxCtorItems }
    /\ ctor_iname_to_tag \in
            {<<>>} \cup { [n \in {"j"} |-> t] : t \in IndexTags }
                   \cup { [n \in {"i"} |-> t] : t \in ParallelTags }
    /\ ctor_insns = <<>>
    /\ ctor_pos = 1
    /\ ctor_pc = "parsing"
    /\ ctor_sequential = {}

\* one turn of "for insn in instructions: parse_if_necessary(insn)"
DoParseIfNecessary ==
    /\ ctor_pc = "parsing"
    /\ ctor_pos \in DOMAIN ctor_input
    /\ LET r == ParseIfNecessary(ctor_insns, ctor_input[ctor_pos])
       IN  /\ ctor_insns' = r.insns
           /\ IF r.err = "None"
              THEN ctor_pos' = ctor_pos + 1 /\ ctor_pc' = ctor_pc
              ELSE ctor_pos' = ctor_pos /\ ctor_pc' = r.err
    /\ UNCHANGED <<ctor_input, ctor_iname_to_tag, ctor_sequential>>

\* after the loop: the check of the ids, and Record.__init__
FinishInit ==
    /\ ctor_pc = "parsing"
    /\ ctor_pos \notin DOMAIN ctor_input
    /\ ctor_pc' = IF IdsNotUnique(ctor_insns) THEN "RuntimeError" ELSE "built"
    /\ UNCHANGED <<ctor_input, ctor_iname_to_tag, ctor_insns, ctor_pos,
                   ctor_sequential>>

\* kernel.sequential_inames on the kernel that was built
DoSequentialInames ==
    /\ ctor_pc = "built"
    /\ LET r == SequentialInames(ctor_insns, ctor_iname_to_tag)
       IN  /\ ctor_sequential' = r.result
           /\ ctor_pc' = IF r.err = "None" THEN "sequential_inames"
                         ELSE "sequential_inames: RuntimeError"
    /\ UNCHANGED <<ctor_input, ctor_iname_to_tag, ctor_insns, ctor_pos>>

CtorNext ==
    \/ DoParseIfNecessary
    \/ FinishInit
    \/ DoSequentialInames

(***************************************************************************)
(* Part 8: SetOperationCacheManager (kernel.py)                            *)
(***************************************************************************)
\* the sets queried; hash(set): two of the sets share a hash value
HashOf == [A |-> 0, B |-> 0, C |-> 1]

\* set.plain_is_equal(bkt_set)
PlainIsEqual(set, bkt_set) == set = bkt_set

\* the bound method set.dim_min or set.dim_max, the third argument of op
BoundMethod(set, name) == [im_self |-> set, im_func |-> name]

\* the string "dim_min" or "dim_max", the second argument of op
OpName(name) == [str |-> name]

\* op(*args): the underlying set operation; equal inputs give equal results
CallBoundMethod(set_op, args) == <<set_op.im_func, set_op.im_self, args>>

\* a variant: the name of the operation is compared with the name stored
RECURSIVE FindInBucketByName(_, _, _, _, _)
FindInBucketByName(bucket, k, set, set_op, args) ==
    IF k > Len(bucket) THEN 0
    ELSE IF /\ PlainIsEqual(set, bucket[k][1])
            /\ OpName(set_op.im_func) = bucket[k][2]
            /\ args = bucket[k][3]
         THEN k
         ELSE FindInBucketByName(bucket, k + 1, set, set_op, args)

\* "for bkt_set, bkt_op, bkt_args, result in bucket": the index of the first
\* entry that the test accepts, 0 if there is none; a method and a string
\* compare unequal
RECURSIVE FindInBucket(_, _, _, _, _)
FindInBucket(bucket, k, set, set_op, args) ==
    IF k > Len(bucket) THEN 0
    ELSE IF /\ PlainIsEqual(set, bucket[k][1])
            /\ set_op = bucket[k][2]
            /\ args = bucket[k][3]
         THEN k
         ELSE FindInBucket(bucket, k + 1, set, set_op, args)

\* SetOperationCacheManager.op(set, op_name, set_op, args): the cache after the
\* call, the result returned and whether the set operation was invoked
CacheOp(cache, set, op_name, set_op, args) ==
    LET hashval == HashOf[set]
        with_bucket == IF hashval \in DOMAIN cache THEN cache
                       ELSE (hashval :> <<>>) @@ cache
        bucket == with_bucket[hashval]
        found == FindInBucket(bucket, 1, set, set_op, args)
    IN  IF found /= 0
        THEN [cache |-> with_bucket, result |-> bucket[found][4],
              invoked |-> FALSE]
        ELSE LET result == CallBoundMethod(set_op, args)
             IN  [cache |-> [with_bucket EXCEPT
                                ![hashval] = Append(bucket, <<set, op_name, args, result>>)],
                  result |-> result, invoked |-> TRUE]

\* SetOperationCacheManager.dim_min(set, *args)
DimMin(cache, set, args) ==
    CacheOp(cache, set, OpName("dim_min"), BoundMethod(set, "dim_min"), args)

\* SetOperationCacheManager.dim_max(set, *args)
DimMax(cache, set, args) ==
    CacheOp(cache, set, OpName("dim_max"), BoundMethod(set, "dim_max"), args)

\* SetOperationCacheManager.__init__: self.cache = {}
CacheInit ==
    /\ cm_cache = <<>>
    /\ cm_queries = <<>>

\* the record of a query: what was asked and what came back
Queried(set, name, args, r) ==
    [set |-> set, op_name |-> name, args |-> args, result |-> r.result,
     invoked |-> r.invoked]

\* a dim_min query for a dimension of a set
DoDimMin ==
    /\ Len(cm_queries) < MaxQueries
    /\ \E set \in DOMAIN HashOf : \E args \in {<<0>>, <<1>>} :
        LET r == DimMin(cm_cache, set, args)
        IN  /\ cm_cache' = r.cache
            /\ cm_queries' = Append(cm_queries, Queried(set, "dim_min", args, r))

\* a dim_max query for a dimension of a set
DoDimMax ==
    /\ Len(cm_queries) < MaxQueries
    /\ \E set \in DOMAIN HashOf : \E args \in {<<0>>, <<1>>} :
        LET r == DimMax(cm_cache, set, args)
        IN  /\ cm_cache' = r.cache
            /\ cm_queries' = Append(cm_queries, Queried(set, "dim_max", args, r))

CacheNext ==
    \/ DoDimMin
    \/ DoDimMax

(***************************************************************************)
(* Claims about find_all_insn_inames                                       *)
(***************************************************************************)
InsnIds == DOMAIN instructions

\* some instruction reads a temporary that no instruction writes
ReadsUnwrittenTemp ==
    \E k \in InsnIds : ReadTemps(instructions[k]) \ DOMAIN writer_map /= {}

\* no visit of any instruction would change the mapping
IsFixedPoint ==
    \A k \in InsnIds : \A tv \in ReadTemps(instructions[k]) :
        InamesNew(instructions[k], tv, insn_id_to_inames) = insn_id_to_inames[k]

\* some assignee is not declared: all_insn_inames cannot build the writer map
\* and does not call find_all_insn_inames
HasUndeclaredAssignee ==
    \E k \in InsnIds : instructions[k].assignee \notin admissible_vars

WritersOf(v) == {instructions[k].id : k \in {m \in InsnIds : instructions[m].assignee = v}}

\* C15: if some instruction's assignee is neither an argument nor a
\* temporary, writer_map raises RuntimeError, and so does all_insn_inames,
\* which returns no mapping, not a partial one either; if every assignee is
\* declared, writer_map maps each written variable, and no other name, to
\* exactly the ids of the instructions whose assignee it is.
C15_WriterMapChecksAssignees ==
    LET wm == WriterMapLoop(instructions, <<>>)
    IN  /\ HasUndeclaredAssignee =>
                /\ wm.err = "RuntimeError"
                /\ wm.result = <<>>
                /\ pc \in {"setup", "RuntimeError"}
                /\ insn_id_to_inames = <<>>
        /\ ~HasUndeclaredAssignee =>
                /\ wm.err = "None"
                /\ pc /= "RuntimeError"
                /\ DOMAIN wm.result = {instructions[k].assignee : k \in InsnIds}
                /\ \A v \in DOMAIN wm.result : wm.result[v] = WritersOf(v)

\* all_insn_inames has raised on a kernel whose second instruction writes an
\* undeclared variable, after an instruction that writes a declared one
C15_Witness ==
    /\ pc = "RuntimeError"
    /\ Len(instructions) = 2
    /\ instructions[1].assignee \in admissible_vars
    /\ instructions[2].assignee \notin admissible_vars
    /\ insn_id_to_inames = <<>>

\* the names an iname set of the kernel can hold: the inames of the domain and
\* the names the instructions are forced under
InameUniverse ==
    all_inames \cup UNION { instructions[k].forced_iname_deps : k \in InsnIds }

\* the mappings from instruction id to iname set that there are for the kernel
InameMappings == [InsnIds -> SUBSET InameUniverse]

\* the propagation rule as C20 states it, for the temporary v read by an
\* instruction: the inames that every writer of v has, less that writer's
\* assignee inames
ContributionOf(v, Y) ==
    {n \in InameUniverse :
        \A w \in WritersOf(v) : n \in Y[w] \ (instructions[w].write_deps \cap all_inames)}

\* the temporaries an instruction reads; reads of arguments are left out
TempsReadBy(insn) == insn.read_deps \cap temp_var_names

\* Y satisfies the constraints of the propagation rule
SatisfiesRule(Y) ==
    \A k \in InsnIds : \A v \in TempsReadBy(instructions[k]) :
        ContributionOf(v, Y) \ instructions[k].reduction_inames \subseteq Y[k]

\* Y[I] contains the direct inames of every instruction I
ContainsDirect(Y) ==
    \A k \in InsnIds : DirectInames(instructions[k]) \subseteq Y[k]

\* Y is pointwise within Z
Within(Y, Z) == \A k \in InsnIds : Y[k] \subseteq Z[k]

\* some instruction that reads a temporary has an iname among its direct
\* inames that a reduction in its own expression binds
DropsDirectIname ==
    \E k \in InsnIds :
        /\ TempsReadBy(instructions[k]) /= {}
        /\ DirectInames(instructions[k]) \cap instructions[k].reduction_inames /= {}

C21_WithinAllInames ==
    /\ pc = "done" =>
            \A k \in InsnIds : insn_id_to_inames[k] \subseteq all_inames
    /\ grid_sizes /= "RuntimeError"

\* the inference has returned for a kernel with an instruction that is forced
\* under a name that is no iname of the domain, and get_grid_sizes has been
\* called on it
C21_Witness ==
    /\ pc = "done"
    /\ grid_sizes /= "None"
    /\ \E k \in InsnIds : instructions[k].forced_iname_deps \ all_inames /= {}

\* the order in which the kernel lists its instructions
AsListed == [k \in DOMAIN instructions |-> k]

\* C27: the result of find_all_insn_inames does not depend on the order in
\* which the instructions are listed: for every permutation of the instruction
\* list, with the same inames, writer map and temporaries, the mapping
\* returned is the same, also when an instruction's direct inames contain an
\* iname that a reduction in its own expression binds.
C27_OrderIndependent ==
    pc = "done" =>
        \A temps \in TempOrders : \A listed \in Listings :
            find_all_insn_inames(listed, temps)
                = find_all_insn_inames(AsListed, temps)

\* the function has returned for a kernel of three instructions, one of which
\* has an iname among its direct inames that a reduction of its own binds, and
\* the mapping is the one computed for the instructions as listed
C27_Witness ==
    /\ pc = "done"
    /\ Len(instructions) = 3
    /\ DropsDirectIname
    /\ \E temps \in TempOrders :
            insn_id_to_inames = find_all_insn_inames(AsListed, temps)

\* the mapping the function returns is the one computed for the instructions
\* as listed, for one of the orders of the temporaries
ReturnsTheMappingComputed ==
    pc = "done" =>
        \E temps \in TempOrders :
            insn_id_to_inames = find_all_insn_inames(AsListed, temps)

\* the result is the same for every order where no instruction that reads a
\* temporary has a reduction-bound iname among its direct inames
OrderIndependentWithoutDrop ==
    (pc = "done" /\ ~DropsDirectIname) =>
        \A temps \in TempOrders : \A listed \in Listings :
            find_all_insn_inames(listed, temps)
                = find_all_insn_inames(AsListed, temps)

(***************************************************************************)
(* Claims about the lifecycle of in-kernel callables                       *)
(***************************************************************************)
Transitions == {"with_types", "with_descrs", "with_hw_axes_sizes", "with_target"}

\* a transition has been applied to the receiver and has returned callable
Transitioned == op \in Transitions /\ outcome = "ok"

Populated(m) == m /= Nil

\* the id-keys of a map, none while it is not populated
Keys(m) == IF Populated(m) THEN DOMAIN m ELSE {}

\* equality of callables, whatever target their types are associated with
WithoutTargets(c) ==
    [c EXCEPT
        !.arg_id_to_dtype =
            IF c.arg_id_to_dtype = Nil THEN Nil
            ELSE [id \in DOMAIN c.arg_id_to_dtype |->
                    DTypeWithTarget(c.arg_id_to_dtype[id], None)],
        !.subkernel =
            IF c.subkernel = Nil THEN Nil
            ELSE [c.subkernel EXCEPT !.args =
                    [k \in DOMAIN c.subkernel.args |->
                        IF c.subkernel.args[k].dtype = Nil THEN c.subkernel.args[k]
                        ELSE [c.subkernel.args[k] EXCEPT
                                !.dtype = DTypeWithTarget(@, None)]]]]

EqualCallables(a, b) == WithoutTargets(a) = WithoutTargets(b)

\* C7: a transition that returns never loses what the receiver had: a
\* populated arg_id_to_dtype stays populated, a populated arg_id_to_descr
\* stays populated, the id-keys of each map only grow, and a callable that is
\* ready for code generation stays ready.
C7_NeverRegresses ==
    Transitioned =>
        /\ Populated(receiver.arg_id_to_dtype) => Populated(callable.arg_id_to_dtype)
        /\ Populated(receiver.arg_id_to_descr) => Populated(callable.arg_id_to_descr)
        /\ Keys(receiver.arg_id_to_dtype) \subseteq Keys(callable.arg_id_to_dtype)
        /\ Keys(receiver.arg_id_to_descr) \subseteq Keys(callable.arg_id_to_descr)
        /\ IsReadyForCodegen(receiver) => IsReadyForCodegen(callable)

\* with_target has been applied to a ready callable whose arg_id_to_dtype is
\* the empty mapping, and what it returned is not ready
C7_Witness ==
    /\ op = "with_target"
    /\ outcome = "ok"
    /\ IsReadyForCodegen(receiver)
    /\ Keys(receiver.arg_id_to_dtype) = {}
    /\ ~IsReadyForCodegen(callable)

\* C8: is_ready_for_codegen() is true exactly when arg_id_to_dtype and
\* arg_id_to_descr are populated and, for a CallableKernel, name_in_target is
\* assigned; for ScalarCallable and ManglerCallable name_in_target does not
\* matter.
C8_ReadyIff ==
    /\ IsReadyForCodegen(callable) <=>
            /\ Populated(callable.arg_id_to_dtype)
            /\ Populated(callable.arg_id_to_descr)
            /\ callable.kind = "CallableKernel" => callable.name_in_target /= None
    /\ callable.kind \in {"ScalarCallable", "ManglerCallable"} =>
            \A n \in {None, "sin", "sinf"} :
                IsReadyForCodegen([callable EXCEPT !.name_in_target = n])
                    = IsReadyForCodegen(callable)

\* a CallableKernel with both maps populated and no name in the target
C8_Witness ==
    /\ callable.kind = "CallableKernel"
    /\ Populated(callable.arg_id_to_dtype)
    /\ Populated(callable.arg_id_to_descr)
    /\ callable.name_in_target = None
    /\ ~IsReadyForCodegen(callable)

\* C9: a transition leaves every field of its receiver as it was and does not
\* modify the mapping it is passed.
C9_TransitionsArePure ==
    op \in Transitions =>
        /\ receiver_after = receiver
        /\ passed_after = passed

\* with_descrs of a scalar callable has returned, and the mapping it was
\* passed has an entry it did not have
C9_Witness ==
    /\ op = "with_descrs"
    /\ outcome = "ok"
    /\ receiver.kind \in {"ScalarCallable", "ManglerCallable"}
    /\ DOMAIN passed_after /= DOMAIN passed

\* C10: when with_types has returned c1 for a mapping, c1.with_types of that
\* mapping returns a callable equal to c1; when with_descrs has returned c1
\* for a mapping, c1.with_descrs of that mapping returns a callable equal to
\* c1.
C10_SpecializationIdempotent ==
    /\ (op = "with_types" /\ outcome = "ok") =>
            \A r \in WithTypes(callable, passed) :
                r.outcome = "ok" /\ EqualCallables(r.callable, callable)
    /\ (op = "with_descrs" /\ outcome = "ok") =>
            \A m \in {passed, passed_after} :
                LET r == WithDescrs(callable, m, order).result
                IN  r.outcome = "ok" /\ EqualCallables(r.callable, callable)

\* with_types of a ManglerCallable whose mangler computes in double precision
\* has returned c1 for a single-precision argument, and c1.with_types of the
\* same mapping raises
C10_Witness ==
    /\ op = "with_types"
    /\ outcome = "ok"
    /\ callable.kind = "ManglerCallable"
    /\ callable.function_mangler = "promoting"
    /\ passed = [id \in {"0"} |-> F32]
    /\ WithTypes(callable, passed) = {Raised("LoopyError")}

\* the receiver of with_types held a type for some id, and the mapping passed
\* gives that id another type
Conflicting ==
    /\ op = "with_types"
    /\ receiver.kind \in {"ManglerCallable", "CallableKernel"}
    /\ Populated(receiver.arg_id_to_dtype)
    /\ \E id \in DOMAIN passed \cap DOMAIN receiver.arg_id_to_dtype :
            passed[id].dt /= receiver.arg_id_to_dtype[id].dt

\* C11: with_types of an already specialized ManglerCallable or CallableKernel
\* with a mapping that gives some id a type different from the one held for
\* it raises LoopyError and returns no callable.
C11_ConflictIsAnError ==
    Conflicting => outcome = "LoopyError"

\* with_types of a CallableKernel specialized for single precision has been
\* given double precision for its input and has returned a callable
C11_Witness ==
    /\ Conflicting
    /\ receiver.kind = "CallableKernel"
    /\ receiver.arg_id_to_dtype["0"].dt = "f32"
    /\ passed = [id \in {"0"} |-> F64]
    /\ outcome = "ok"
    /\ callable.arg_id_to_dtype["0"].dt = "f64"

\* what the mangler of the receiver answers for the known input types of the
\* mapping passed, in ascending id order
MangleResult ==
    Mangle(receiver.function_mangler, KernelTarget, receiver.name,
           SortedInputDtypes(passed, 0))

\* with_types has consulted the mangler of a ManglerCallable that was not
\* specialized before
MangledFresh ==
    /\ op = "with_types"
    /\ receiver.kind = "ManglerCallable"
    /\ ~Populated(receiver.arg_id_to_dtype)

\* C12: when the mangler returns a result, with_types returns a callable whose
\* name_in_target is the returned target name and whose arg_id_to_dtype maps
\* i to the i-th returned argument type and -(j+1) to the j-th returned result
\* type; when the mangler returns no result, and for a ScalarCallable, which
\* has no mangler to consult, with_types raises LoopyError and returns no
\* callable.
C12_MangledOrUnresolved ==
    /\ (MangledFresh /\ MangleResult /= Nil) =>
            /\ outcome = "ok"
            /\ callable.name_in_target = MangleResult.target_name
            /\ DOMAIN callable.arg_id_to_dtype =
                    {PosToId(i - 1) : i \in DOMAIN MangleResult.arg_dtypes}
                        \cup {PosToId(-j) : j \in DOMAIN MangleResult.result_dtypes}
            /\ \A i \in DOMAIN MangleResult.arg_dtypes :
                    callable.arg_id_to_dtype[PosToId(i - 1)]
                        = MangleResult.arg_dtypes[i]
            /\ \A j \in DOMAIN MangleResult.result_dtypes :
                    callable.arg_id_to_dtype[PosToId(-j)]
                        = MangleResult.result_dtypes[j]
    /\ (MangledFresh /\ MangleResult = Nil) =>
            outcome = "LoopyError" /\ callable = receiver
    /\ (op = "with_types" /\ receiver.kind = "ScalarCallable") =>
            outcome = "LoopyError" /\ callable = receiver

\* the mangler knows no function for a single and a double precision
\* argument, and with_types has raised TypeError
C12_Witness ==
    /\ MangledFresh
    /\ passed = [id \in {"0", "1"} |-> IF id = "0" THEN F32 ELSE F64]
    /\ MangleResult = Nil
    /\ outcome = "TypeError"

\* the ids of the mapping passed that get_kw_pos_association associates with
\* the argument of the receiver's nested kernel: its name, and its position
\* among the inputs (0, 1, ...) or among the outputs (-1, -2, ...)
IdsOf(arg) ==
    {id \in DOMAIN passed :
        \/ id = arg.name
        \/ id \in PosIds /\ IdToPos(id) = KwToPos(receiver.subkernel)[arg.name]}

\* shape, dim_tags and memory scope of an argument
Layout(arg) == <<arg.shape, arg.dim_tags, arg.mem_scope>>

\* C18: with_descrs of a CallableKernel rewrites, for every id that is given
\* an array descriptor, shape, dim_tags and memory scope of the argument that
\* get_kw_pos_association associates with the id, and leaves every other
\* argument as it was, whatever the declaration order of inputs and outputs.
C18_DescrsResolvedByName ==
    (op = "with_descrs" /\ outcome = "ok" /\ receiver.kind = "CallableKernel") =>
        \A k \in DOMAIN receiver.subkernel.args :
            LET was == receiver.subkernel.args[k]
                now == callable.subkernel.args[k]
                arrays == {id \in IdsOf(was) : passed[id].kind = "array"}
            IN  /\ now.name = was.name
                /\ arrays = {} => Layout(now) = Layout(was)
                /\ arrays /= {} =>
                        \E id \in arrays :
                            Layout(now) = <<passed[id].shape, passed[id].dim_tags,
                                            passed[id].mem_scope>>

\* the nested kernel declares its output y before its input x; with_descrs
\* has been given an array descriptor for id 0, the input, and has returned a
\* callable in which y has the descriptor's shape and x the shape it had
C18_Witness ==
    /\ op = "with_descrs"
    /\ outcome = "ok"
    /\ receiver.kind = "CallableKernel"
    /\ Len(receiver.subkernel.args) = 2
    /\ receiver.subkernel.args[1].name = "y"
    /\ passed = [id \in {"0"} |-> ArrayDescr]
    /\ callable.subkernel.args[1].shape = ArrayDescr.shape
    /\ Layout(callable.subkernel.args[2]) = Layout(receiver.subkernel.args[2])

\* C19: after with_hw_axes_sizes(L, G) on a CallableKernel, local size first
\* as the interface documents, the nested kernel's overridden grid-size query
\* returns the pair (G, L) for every set of instruction ids: the global size
\* first and the local size second, the order of the pair that
\* LoopKernel.get_grid_sizes returns; on a ScalarCallable or ManglerCallable
\* the operation returns a callable equal to the receiver.
C19_GridOverride ==
    op = "with_hw_axes_sizes" =>
        /\ outcome = "ok"
        /\ receiver.kind = "CallableKernel" =>
                \A insn_ids \in SUBSET {"a", "b"} :
                    GridOverrideCall(callable.subkernel.grid_override, insn_ids)
                        = <<"G", "L">>
        /\ receiver.kind /= "CallableKernel" => callable = receiver

\* with_hw_axes_sizes has been applied to a CallableKernel: the override
\* holds G as its local_size and L as its global_size, and answers (G, L)
C19_Witness ==
    /\ op = "with_hw_axes_sizes"
    /\ receiver.kind = "CallableKernel"
    /\ receiver.subkernel.grid_override = Nil
    /\ callable.subkernel.grid_override
            = [local_size |-> "G", global_size |-> "L"]
    /\ GridOverrideCall(callable.subkernel.grid_override, {"a"}) = <<"G", "L">>

\* the arguments of the nested kernel of the callable at hand
SubkernelArgs == callable.subkernel.args

\* the arguments of the given direction that are declared before the k-th
DeclaredBefore(k, direction) ==
    Cardinality({m \in 1..(k - 1) : SubkernelArgs[m].direction = direction})

\* C25: get_kw_pos_association numbers the inputs 0, 1, 2, ... and the outputs
\* -1, -2, ... each in declaration order, kw_to_pos and pos_to_kw are inverse
\* bijections that cover every argument of the nested kernel, and after
\* CallableKernel.with_types arg_id_to_dtype holds for every argument of the
\* nested kernel the same type under its keyword and under its positional id.
C25_ArgumentIdentifiers ==
    callable.kind = "CallableKernel" =>
        LET assoc == get_kw_pos_association(callable.subkernel)
            kw_to_pos == assoc.kw_to_pos
            pos_to_kw == assoc.pos_to_kw
        IN  /\ assoc.err = None
            /\ DOMAIN kw_to_pos = {SubkernelArgs[k].name : k \in DOMAIN SubkernelArgs}
            /\ \A k \in DOMAIN SubkernelArgs :
                    kw_to_pos[SubkernelArgs[k].name] =
                        IF SubkernelArgs[k].direction = "in"
                        THEN DeclaredBefore(k, "in")
                        ELSE -1 - DeclaredBefore(k, "out")
            /\ \A kw \in DOMAIN kw_to_pos :
                    kw_to_pos[kw] \in DOMAIN pos_to_kw /\ pos_to_kw[kw_to_pos[kw]] = kw
            /\ \A pos \in DOMAIN pos_to_kw :
                    pos_to_kw[pos] \in DOMAIN kw_to_pos /\ kw_to_pos[pos_to_kw[pos]] = pos
            /\ (op = "with_types" /\ outcome = "ok") =>
                    \A kw \in DOMAIN kw_to_pos :
                        /\ kw \in DOMAIN callable.arg_id_to_dtype
                        /\ PosToId(kw_to_pos[kw]) \in DOMAIN callable.arg_id_to_dtype
                        /\ callable.arg_id_to_dtype[kw]
                                = callable.arg_id_to_dtype[PosToId(kw_to_pos[kw])]
                        /\ callable.arg_id_to_dtype[kw] /= Nil

\* with_types has specialized a nested kernel with two inputs and two outputs,
\* declared alternately, and the two inputs have different types
C25_Witness ==
    /\ callable.kind = "CallableKernel"
    /\ op = "with_types"
    /\ outcome = "ok"
    /\ Len(SubkernelArgs) = 4
    /\ callable.arg_id_to_dtype["0"] /= callable.arg_id_to_dtype["1"]
    /\ callable.arg_id_to_dtype["-2"] = callable.arg_id_to_dtype["w"]

(***************************************************************************)
(* Claims about the naming service                                         *)
(***************************************************************************)
\* the names the service has added to the kernel's scoped functions
AddedNames ==
    DOMAIN scoped_kernel.scoped_functions \ DOMAIN naming_kernel.scoped_functions

\* the callables the call expressions resolve to
GivenCallables ==
    {pymbolic_exprs_to_knl_callables[k].callable :
        k \in DOMAIN pymbolic_exprs_to_knl_callables}

NewNameOf(k) ==
    registry.pymbolic_calls_to_new_names[pymbolic_exprs_to_knl_callables[k].call]

\* C3: when the service has returned, it has added as many names as there are
\* callables distinct by value among the given ones, and two call expressions
\* have the same name exactly when their callables are equal.
C3_NamingUniqueness ==
    naming_pc = "done" =>
        /\ Cardinality(AddedNames) = Cardinality(GivenCallables)
        /\ \A k, l \in DOMAIN pymbolic_exprs_to_knl_callables :
                (NewNameOf(k) = NewNameOf(l))
                    <=> (pymbolic_exprs_to_knl_callables[k].callable
                            = pymbolic_exprs_to_knl_callables[l].callable)

\* the service has returned, and two call expressions that resolve to equal
\* nested-kernel callables have different names
C3_Witness ==
    /\ naming_pc = "done"
    /\ \E k, l \in DOMAIN pymbolic_exprs_to_knl_callables :
            /\ pymbolic_exprs_to_knl_callables[k].callable.kind = "CallableKernel"
            /\ pymbolic_exprs_to_knl_callables[k].callable
                    = pymbolic_exprs_to_knl_callables[l].callable
            /\ NewNameOf(k) /= NewNameOf(l)
    /\ Cardinality(AddedNames) > Cardinality(GivenCallables)

\* the k-th name of the sequence that next_indexed_variable makes from a name
RECURSIVE Candidate(_, _)
Candidate(function, k) ==
    IF k = 1 THEN next_indexed_variable(function)
    ELSE next_indexed_variable(Candidate(function, k - 1))

\* the loop gives the callable of the item it is at a new name
NamesNewCallable ==
    /\ naming_pc = "loop"
    /\ call_pos' = call_pos + 1
    /\ pymbolic_exprs_to_knl_callables[call_pos].callable
            \notin DOMAIN registry.scoped_functions_to_names

AllDeps(kernel, id) ==
    LET insn == CHOOSE i \in Range(kernel.instructions) : i.id = id
    IN  DepsWithin(kernel.instructions, insn.depends_on, Len(kernel.instructions))

\* C4: in the kernel that _inline_call_instruction returns, every instruction
\* that depended on the call depends, directly or through others, on every
\* spliced instruction, and every spliced instruction and the end marker
\* depend, directly or through others, on everything the call depended on.
C4_InliningTransparency ==
    inlined /= Nil =>
        LET call == inlined.instruction
            dependents == {i.id : i \in {j \in Range(inlined.kernel.instructions) :
                                            call.id \in j.depends_on}}
        IN  /\ \A x \in dependents :
                    inlined.spliced \subseteq AllDeps(inl_kernel, x)
            /\ \A s \in inlined.spliced \cup {call.id} :
                    call.depends_on \subseteq AllDeps(inl_kernel, s)

\* a call that depends on an instruction has been inlined, the nested kernel
\* has no instructions, and the end marker depends on nothing
C4_Witness ==
    /\ inlined /= Nil
    /\ inlined.callee_knl.instructions = <<>>
    /\ inlined.instruction.depends_on /= {}
    /\ AllDeps(inl_kernel, inlined.instruction.id) = {}

\* the instructions of the kernel inline_callable_kernel was given that call
\* the nested kernel, and the others
IsCallSite(insn) == CallsNestedKernel(original, insn, function_name)

Position(insns, id) == CHOOSE k \in DOMAIN insns : insns[k].id = id

\* C5: when inline_callable_kernel has returned, no instruction of the kernel
\* calls the nested kernel of that name; in place of every instruction that
\* did there is the start marker, the nested kernel's instructions and the end
\* marker with the call's id; every other instruction is there as it was, and
\* they are in the order they were in.
C5_NoCallLeftOthersKept ==
    inl_pc = "done" =>
        LET was == original.instructions
            now == inl_kernel.instructions
            original_ids == {was[k].id : k \in DOMAIN was}
            kept == SelectSeq(now, LAMBDA i : i.id \in original_ids)
        IN  /\ \A k \in DOMAIN now :
                    ~CallsNestedKernel(inl_kernel, now[k], function_name)
            /\ Len(kept) = Len(was)
            /\ \A k \in DOMAIN was :
                    /\ k \in DOMAIN kept
                    /\ kept[k].id = was[k].id
                    /\ ~IsCallSite(was[k]) => kept[k] = was[k]
            /\ \A k \in DOMAIN was :
                    IsCallSite(was[k]) =>
                        LET end == Position(now, was[k].id)
                            before == IF k = 1 THEN 0
                                      ELSE Position(now, was[k - 1].id)
                            callee_knl ==
                                original.scoped_functions[
                                    was[k].expression.function].subkernel
                        IN  /\ now[end].kind = "noop"
                            /\ end - before = Len(callee_knl.instructions) + 2

\* inline_callable_kernel has returned after inlining two calls of the nested
\* kernel, and an instruction that did not call it is not as it was
C5_Witness ==
    /\ inl_pc = "done"
    /\ Cardinality({k \in DOMAIN original.instructions :
                        IsCallSite(original.instructions[k])}) = 2
    /\ \E k \in DOMAIN original.instructions :
            /\ ~IsCallSite(original.instructions[k])
            /\ original.instructions[k] \notin Range(inl_kernel.instructions)

\* the instructions of the kernel that have the given id
InsnsWithId(kernel, id) == {insn \in Range(kernel.instructions) : insn.id = id}

\* the no-op instructions of a sequence of instructions
NoOps(insns) == SelectSeq(insns, LAMBDA insn : insn.kind = "noop")

\* C22: _inline_call_instruction adds exactly two no-op markers.  The start
\* marker depends on what the call depended on, and every spliced instruction
\* without dependencies inside the nested kernel depends on it.  The end
\* marker has the id of the call and depends on exactly the renamed ids of
\* the nested instructions that no other nested instruction depends on.
\* Every spliced instruction has the renamed internal dependencies of its
\* original and no other spliced instruction among its dependencies, is
\* within its renamed inames and the inames of the call, and has the
\* priority of the call.
C22_DependencySplicing ==
    inlined /= Nil =>
        LET call == inlined.instruction
            nested == Range(inlined.callee_knl.instructions)
            new_id == inlined.insn_id
            leaves == {insn \in nested :
                            \A other \in nested : insn.id \notin other.depends_on}
        IN  /\ Len(NoOps(inl_kernel.instructions))
                    = Len(NoOps(inlined.kernel.instructions)) + 2
            /\ \E noop_start \in InsnsWithId(inl_kernel, inlined.start) :
                    /\ InsnsWithId(inl_kernel, inlined.start) = {noop_start}
                    /\ noop_start.kind = "noop"
                    /\ noop_start.depends_on = call.depends_on
            /\ \E noop_end \in InsnsWithId(inl_kernel, call.id) :
                    /\ InsnsWithId(inl_kernel, call.id) = {noop_end}
                    /\ noop_end.kind = "noop"
                    /\ noop_end.depends_on = {new_id[insn.id] : insn \in leaves}
            /\ \A insn \in nested :
                    \E spliced \in InsnsWithId(inl_kernel, new_id[insn.id]) :
                        /\ InsnsWithId(inl_kernel, new_id[insn.id]) = {spliced}
                        /\ insn.depends_on = {} => inlined.start \in spliced.depends_on
                        /\ spliced.depends_on \cap inlined.spliced
                                = {new_id[d] : d \in insn.depends_on}
                        /\ spliced.within_inames
                                = {inlined.iname_map[iname] : iname \in insn.within_inames}
                                    \cup call.within_inames
                        /\ spliced.priority = call.priority

\* a call that depends on another instruction has been inlined; the nested
\* kernel has a root and an instruction that depends on it, the start marker
\* depends on what the call depended on, the spliced root on the start
\* marker, and the end marker on the spliced leaf only
C22_Witness ==
    /\ inlined /= Nil
    /\ inlined.instruction.depends_on /= {}
    /\ Len(inlined.callee_knl.instructions) = 2
    /\ inlined.callee_knl.instructions[2].depends_on = {<<"a">>}
    /\ \E noop_end \in InsnsWithId(inl_kernel, inlined.instruction.id) :
            /\ noop_end.kind = "noop"
            /\ noop_end.depends_on = {inlined.insn_id[<<"b">>]}
    /\ \E noop_start \in InsnsWithId(inl_kernel, inlined.start) :
            noop_start.depends_on = inlined.instruction.depends_on
    /\ \E root \in InsnsWithId(inl_kernel, inlined.insn_id[<<"a">>]) :
            /\ inlined.start \in root.depends_on
            /\ root.priority = inlined.instruction.priority

\* the ids of the instructions of a kernel
InsnIdsOf(kernel) == {insn.id : insn \in Range(kernel.instructions)}

\* a mapping that gives different names to different names
OneToOne(f) == \A x, y \in DOMAIN f : f[x] = f[y] => x = y

NestedCalls ==
    {insn \in Range(inlined.callee_knl.instructions) :
        /\ insn.expression /= Nil
        /\ insn.expression.function \in DOMAIN inlined.callee_knl.scoped_functions}

\* the callable that the call of the instruction with the given id resolves
\* to in the kernel; Nil if the name of the function is not scoped
ResolvedIn(kernel, id) ==
    LET insn == CHOOSE i \in Range(kernel.instructions) : i.id = id
    IN  IF insn.expression.function \in DOMAIN kernel.scoped_functions
        THEN kernel.scoped_functions[insn.expression.function]
        ELSE Nil

\* the name of the function that the instruction with the given id calls
CalledIn(kernel, id) ==
    (CHOOSE i \in Range(kernel.instructions) : i.id = id).expression.function

C24_ScalarWitness ==
    /\ inlined /= Nil
    /\ \E insn \in NestedCalls :
            /\ insn.expression.function = "sin_0"
            /\ inlined.kernel.scoped_functions["sin_0"]
                    /= inlined.callee_knl.scoped_functions["sin_0"]
            /\ ResolvedIn(inl_kernel, inlined.insn_id[insn.id])
                    = inlined.callee_knl.scoped_functions["sin_0"]

\* C30: _inline_call_instruction does not rebind the caller's own calls:
\* every call in an instruction of the caller other than the inlined one
\* resolves through the scoped functions to a callable equal to the one it
\* resolved to before, also when the nested kernel has another callable
\* under the same name; and every entry of the caller's scoped functions is
\* still there with an equal callable
C30_CallerCallsNotRebound ==
    inlined /= Nil =>
        /\ \A insn \in Range(inlined.kernel.instructions) :
                (insn /= inlined.instruction /\ insn.expression /= Nil) =>
                    ResolvedIn(inl_kernel, insn.id)
                        = ResolvedIn(inlined.kernel, insn.id)
        /\ \A name \in DOMAIN inlined.kernel.scoped_functions :
                /\ name \in DOMAIN inl_kernel.scoped_functions
                /\ inl_kernel.scoped_functions[name]
                        = inlined.kernel.scoped_functions[name]

\* a nested kernel whose scoped functions have sin_0 for float32 has been
\* inlined into a caller whose own instruction calls sin_0, for float64 in
\* the caller; after it the caller's instruction calls another name and
\* resolves to the nested kernel's sin for float32
C30_Witness ==
    /\ inlined /= Nil
    /\ \E insn \in Range(inlined.kernel.instructions) :
            /\ insn /= inlined.instruction
            /\ insn.expression /= Nil
            /\ insn.expression.function = "sin_0"
            /\ ResolvedIn(inlined.kernel, insn.id) = SinF64
            /\ CalledIn(inl_kernel, insn.id) /= "sin_0"
            /\ ResolvedIn(inl_kernel, insn.id) = SinF32
            /\ inl_kernel.scoped_functions["sin_0"] = SinF64

\* the entries of the caller's scoped functions are still there with equal
\* callables
C30_EntriesKept ==
    inlined /= Nil =>
        \A name \in DOMAIN inlined.kernel.scoped_functions :
            /\ name \in DOMAIN inl_kernel.scoped_functions
            /\ inl_kernel.scoped_functions[name]
                    = inlined.kernel.scoped_functions[name]

(***************************************************************************)
(* Claims about index remapping                                            *)
(***************************************************************************)
\* C6: the index tuple that map_subscript gives addresses the element that the
\* callee's subscript addresses, each of its indices is within the caller
\* array's shape, whatever the order of the caller's strides, and a[i] of a
\* callee a of shape [6] becomes b[i/2, i%2] of a caller b of shape [3, 2].
C6_SameElementInBounds ==
    remap_pc = "done" =>
        /\ Dot(new_indices, subscript.caller_arg.strides)
            = Dot(subscript.begin, subscript.caller_arg.strides)
                + Dot(subscript.index_tuple, subscript.callee_arg.strides)
        /\ Len(new_indices) = Len(subscript.caller_arg.shape)
        /\ \A d \in DOMAIN new_indices :
                /\ 0 <= new_indices[d]
                /\ new_indices[d] < subscript.caller_arg.shape[d]
        /\ ( /\ subscript.callee_arg = ArrayArg(<<6>>, <<1>>)
             /\ subscript.caller_arg = ArrayArg(<<3, 2>>, <<2, 1>>)
             /\ subscript.begin = <<0, 0>> )
            => new_indices = <<subscript.index_tuple[1] \div 2,
                               subscript.index_tuple[1] % 2>>

\* a[4] of the callee's a of shape [6] has been remapped into a column-major
\* caller array of shape [3, 2]: the element is the same, the first index is
\* beyond the shape
C6_Witness ==
    /\ remap_pc = "done"
    /\ subscript.caller_arg = ArrayArg(<<3, 2>>, <<1, 3>>)
    /\ subscript.callee_arg = ArrayArg(<<6>>, <<1>>)
    /\ subscript.index_tuple = <<4>>
    /\ new_indices = <<4, 0>>

\* C14: when the shape of the callee's argument or the shape of the caller's
\* array has a symbolic dimension, map_subscript raises LoopyError and gives
\* no indices.
C14_NonConstantShapeIsAnError ==
    ( /\ remap_pc /= "call"
      /\ \/ ~HasConstantShape(subscript.callee_arg)
         \/ ~HasConstantShape(subscript.caller_arg) )
        => remap_pc = "LoopyError" /\ new_indices = <<>>

\* the callee's argument has a symbolic extent and map_subscript has raised
\* IndexError
C14_Witness ==
    /\ ~HasConstantShape(subscript.callee_arg)
    /\ HasConstantShape(subscript.caller_arg)
    /\ remap_pc = "IndexError"

(***************************************************************************)
(* Claims about the registration of callee kernels                         *)
(***************************************************************************)
\* a call of the registered kernel whose number of assignees or of parameters
\* is not the callee's number of output or of input arguments
ArityMismatch(insn) ==
    /\ insn.class = "CallInstruction"
    /\ insn.function = reg_function_name
    /\ \/ Len(insn.assignees) /= ExpectedNumAssignees(reg_callee)
       \/ Len(insn.parameters) /= ExpectedNumParameters(reg_callee)

\* C13: a call whose counts of assignees or parameters disagree with the
\* callee's output and input arguments is rejected with LoopyError by the
\* registration or by inlining at the latest, before anything is spliced,
\* and a call instruction whose counts agree is never rejected for its
\* arity, whatever the function's name.
C13_ArityChecked ==
    /\ reg_pc \in {"splicing", "IndexError"} =>
            ~ArityMismatch(reg_kernel.instructions[reg_pos])
    /\ reg_pc = "LoopyError" =>
            ArityMismatch(reg_caller.instructions[reg_pos])

\* a kernel with one input and one output has been registered as f, the
\* kernel was returned, and inlining has matched the arguments of a call
\* of f with two parameters and goes on to splice
C13_Witness ==
    /\ reg_pc = "splicing"
    /\ reg_function_name = "f"
    /\ ExpectedNumParameters(reg_callee) = 1
    /\ Len(reg_kernel.instructions[reg_pos].parameters) = 2
    /\ ArityMismatch(reg_kernel.instructions[reg_pos])

\* the lookup that register_callable_kernel registers
LookupRegistered ==
    RegisterCalleeKernel(reg_function_name,
        RegisteredCallable(reg_function_name, reg_callee))

\* the registration has been attempted
RegistrationDone == reg_pc \in {"registered", "UnboundLocalError", "splicing", "IndexError"}

\* C29: register_function_lookup succeeds for any registration: registering
\* a lookup that is already in the kernel's list returns a kernel whose list is
\* unchanged (no duplicate, no error), registering a new one appends it after
\* the existing ones, and the list of the kernel given is not modified.
C29_RegistrationSucceeds ==
    /\ [](RegistrationDone =>
            /\ reg_pc /= "UnboundLocalError"
            /\ reg_kernel /= Nil
            /\ reg_kernel.function_scopers =
                    IF LookupRegistered \in Range(reg_caller.function_scopers)
                    THEN reg_caller.function_scopers
                    ELSE Append(reg_caller.function_scopers, LookupRegistered))
    /\ [][reg_caller' = reg_caller]_vars

\* a lookup has been registered with a kernel whose list already holds it
C29_Witness ==
    /\ RegistrationDone
    /\ LookupRegistered \in Range(reg_caller.function_scopers)

\* registering a new lookup appends it after the ones there are and leaves
\* the kernel given as it was
C29_NewLookupAppended ==
    /\ [](RegistrationDone =>
            (LookupRegistered \notin Range(reg_caller.function_scopers) =>
                /\ reg_kernel /= Nil
                /\ reg_kernel.function_scopers =
                        Append(reg_caller.function_scopers, LookupRegistered)))
    /\ [][reg_caller' = reg_caller]_vars

(***************************************************************************)
(* Claims about the construction of kernels                                *)
(***************************************************************************)
\* the inames bound by a reduction in some instruction's expression
ReductionBound ==
    {n \in {"i", "j"} : \E k \in DOMAIN ctor_insns :
        n \in ctor_insns[k].reduction_inames}

\* C16: if an iname bound by a reduction in some instruction's expression has
\* a parallel tag in iname_to_tag, sequential_inames raises RuntimeError
\* ("inconsistency detected"); otherwise it returns exactly the set of the
\* inames bound by a reduction in some instruction's expression.
C16_SequentialInames ==
    ctor_pc \in {"sequential_inames", "sequential_inames: RuntimeError"} =>
        IF \E n \in ReductionBound :
                n \in DOMAIN ctor_iname_to_tag /\ ctor_iname_to_tag[n] \in ParallelTags
        THEN ctor_pc = "sequential_inames: RuntimeError" /\ ctor_sequential = {}
        ELSE ctor_pc = "sequential_inames" /\ ctor_sequential = ReductionBound

\* sequential_inames has raised on a kernel with a reduction over i and j and
\* a parallel tag on i
C16_Witness ==
    /\ ctor_pc = "sequential_inames: RuntimeError"
    /\ ReductionBound = {"i", "j"}
    /\ ctor_iname_to_tag = [n \in {"i"} |-> "l.0"]

\* the ids of the instructions collected before the k-th
IdsBefore(k) == {ctor_insns[j].id : j \in 1..(k - 1)}

\* C17: LoopKernel construction either raises or yields a kernel whose
\* instruction ids are pairwise distinct, for instruction lists that mix
\* strings with and without a label and Instructions with and without an id;
\* the id that make_unique_instruction_id gives an instruction is not the id
\* of an instruction collected before it, and is the label of a string whose
\* label is not in use.
C17_UniqueInstructionIds ==
    /\ ctor_pc \notin {"parsing", "TypeError", "RuntimeError"} =>
            /\ Len(ctor_insns) = Len(ctor_input)
            /\ \A k, j \in DOMAIN ctor_insns :
                    ctor_insns[k].id = ctor_insns[j].id => k = j
            /\ \A k \in DOMAIN ctor_insns : ctor_insns[k].id /= NoId
    /\ \A k \in DOMAIN ctor_insns :
            /\ ctor_input[k].id = NoId => ctor_insns[k].id \notin IdsBefore(k)
            /\ ctor_input[k].id /= NoId => ctor_insns[k].id = ctor_input[k].id
            /\ (ctor_input[k].label /= NoId /\ ctor_input[k].label \notin IdsBefore(k))
                    => ctor_insns[k].id = ctor_input[k].label

\* a kernel has been built from a string labelled insn_0 and two strings
\* without a label: the second of them could use neither insn nor insn_0
C17_Witness ==
    /\ ctor_pc = "built"
    /\ Len(ctor_input) = 3
    /\ \A k \in 1..3 : ctor_input[k].class = "str"
    /\ ctor_insns[1].id = <<"insn", 0>>
    /\ ctor_insns[2].id = <<"insn">>
    /\ ctor_insns[3].id = <<"insn", 1>>

(***************************************************************************)
(* Claims about the cache of set operations                                *)
(***************************************************************************)
\* the queries before the k-th one that asked what the k-th one asks
EarlierEqual(k) ==
    { m \in 1..(k - 1) :
        /\ cm_queries[m].set = cm_queries[k].set
        /\ cm_queries[m].op_name = cm_queries[k].op_name
        /\ cm_queries[m].args = cm_queries[k].args }

\* the entries of all buckets
CacheEntries ==
    UNION { { <<h, k>> : k \in DOMAIN cm_cache[h] } : h \in DOMAIN cm_cache }

\* C28: SetOperationCacheManager memoizes: a query whose set, operation and
\* arguments equal those of an earlier query returns the earlier result
\* without invoking the set operation again, the cache holds at most one entry
\* per (set, operation, arguments), and a dim_max query never gets a result
\* that was cached for dim_min, nor the other way round.
C28_Memoizes ==
    /\ \A k \in DOMAIN cm_queries : \A m \in EarlierEqual(k) :
            /\ ~cm_queries[k].invoked
            /\ cm_queries[k].result = cm_queries[m].result
    /\ \A e, f \in CacheEntries :
            LET x == cm_cache[e[1]][e[2]]
                y == cm_cache[f[1]][f[2]]
            IN  (x[1] = y[1] /\ x[2] = y[2] /\ x[3] = y[3]) => e = f
    /\ \A k \in DOMAIN cm_queries :
            cm_queries[k].result[1] = cm_queries[k].op_name

\* the same dimension of the same set has been asked for its minimum twice,
\* with a query for its maximum in between
C28_Witness ==
    /\ Len(cm_queries) = 3
    /\ EarlierEqual(3) = {1}
    /\ cm_queries[2].set = cm_queries[1].set
    /\ cm_queries[2].args = cm_queries[1].args
    /\ cm_queries[2].op_name /= cm_queries[1].op_name

(***************************************************************************)
(* Specifications                                                          *)
(***************************************************************************)
InamesIdle ==
    /\ instructions = <<>>
    /\ insn_id_to_inames = <<>>
    /\ pc = "idle"
    /\ idx = 0
    /\ pending = {}
    /\ did_something = FALSE
    /\ grid_sizes = "None"

CallableIdle ==
    /\ callable = Nil
    /\ op = "idle"
    /\ outcome = "ok"
    /\ receiver = Nil
    /\ receiver_after = Nil
    /\ passed = Nil
    /\ passed_after = Nil
    /\ order = <<>>

InlineIdle ==
    /\ inl_kernel = Nil
    /\ function_name = None
    /\ old_insns = <<>>
    /\ original = Nil
    /\ insn_pos = 0
    /\ inlined = Nil
    /\ inl_pc = "idle"

RemapIdle ==
    /\ subscript = Nil
    /\ new_indices = <<>>
    /\ remap_pc = "idle"

NamingIdle ==
    /\ pymbolic_exprs_to_knl_callables = <<>>
    /\ naming_kernel = Nil
    /\ registry = Nil
    /\ call_pos = 0
    /\ naming_pc = "idle"
    /\ scoped_kernel = Nil

RegisterIdle ==
    /\ reg_caller = Nil
    /\ reg_function_name = None
    /\ reg_callee = Nil
    /\ reg_pos = 0
    /\ reg_pc = "idle"
    /\ reg_kernel = Nil
    /\ reg_arg_map = Nil

CtorIdle ==
    /\ ctor_input = <<>>
    /\ ctor_iname_to_tag = <<>>
    /\ ctor_insns = <<>>
    /\ ctor_pos = 0
    /\ ctor_pc = "idle"
    /\ ctor_sequential = {}

CacheIdle ==
    /\ cm_cache = <<>>
    /\ cm_queries = <<>>

\* find_all_insn_inames on every kernel
Init ==
    /\ InamesInit
    /\ CallableIdle
    /\ NamingIdle
    /\ InlineIdle
    /\ RemapIdle
    /\ RegisterIdle
    /\ CtorIdle
    /\ CacheIdle

Next ==
    /\ InamesNext
    /\ UNCHANGED <<callableVars,
                   namingVars,
                   inlineVars,
                   remapVars,
                   registerVars,
                   ctorVars,
                   cacheVars>>

Spec == Init /\ [][Next]_vars

\* the function runs to its end: no step of it waits for anything
FairSpec == Spec /\ WF_vars(Next)

\* the transitions of a callable, in any order
CallableSpecInit ==
    /\ CallableInit
    /\ InamesIdle
    /\ NamingIdle
    /\ InlineIdle
    /\ RemapIdle
    /\ RegisterIdle
    /\ CtorIdle
    /\ CacheIdle

CallableSpecNext ==
    /\ CallableNext
    /\ UNCHANGED <<inameVars,
                   namingVars,
                   inlineVars,
                   remapVars,
                   registerVars,
                   ctorVars,
                   cacheVars>>

CallableSpec == CallableSpecInit /\ [][CallableSpecNext]_vars

\* register_pymbolic_calls_to_knl_callables on every kernel and mapping
NamingSpecInit ==
    /\ NamingInit
    /\ InamesIdle
    /\ CallableIdle
    /\ InlineIdle
    /\ RemapIdle
    /\ RegisterIdle
    /\ CtorIdle
    /\ CacheIdle

NamingSpecNext ==
    /\ NamingNext
    /\ UNCHANGED <<inameVars,
                   callableVars,
                   inlineVars,
                   remapVars,
                   registerVars,
                   ctorVars,
                   cacheVars>>

NamingSpec == NamingSpecInit /\ [][NamingSpecNext]_vars

\* inline_callable_kernel on every caller, nested kernel and name
InlineSpecInit ==
    /\ InlineInit
    /\ InamesIdle
    /\ CallableIdle
    /\ NamingIdle
    /\ RemapIdle
    /\ RegisterIdle
    /\ CtorIdle
    /\ CacheIdle

InlineSpecNext ==
    /\ InlineNext
    /\ UNCHANGED <<inameVars,
                   callableVars,
                   namingVars,
                   remapVars,
                   registerVars,
                   ctorVars,
                   cacheVars>>

InlineSpec == InlineSpecInit /\ [][InlineSpecNext]_vars

\* map_subscript on every subscript
RemapSpecInit ==
    /\ RemapInit
    /\ InamesIdle
    /\ CallableIdle
    /\ NamingIdle
    /\ InlineIdle
    /\ RegisterIdle
    /\ CtorIdle
    /\ CacheIdle

RemapSpecNext ==
    /\ RemapNext
    /\ UNCHANGED <<inameVars,
                   callableVars,
                   namingVars,
                   inlineVars,
                   registerVars,
                   ctorVars,
                   cacheVars>>

RemapSpec == RemapSpecInit /\ [][RemapSpecNext]_vars

\* register_callable_kernel on every caller and callee, and the inlining of the first call
RegisterSpecInit ==
    /\ RegisterInit
    /\ InamesIdle
    /\ CallableIdle
    /\ NamingIdle
    /\ InlineIdle
    /\ RemapIdle
    /\ CtorIdle
    /\ CacheIdle

RegisterSpecNext ==
    /\ RegisterNext
    /\ UNCHANGED <<inameVars,
                   callableVars,
                   namingVars,
                   inlineVars,
                   remapVars,
                   ctorVars,
                   cacheVars>>

RegisterSpec == RegisterSpecInit /\ [][RegisterSpecNext]_vars

\* LoopKernel(...) on every instruction list, and sequential_inames of the kernel
CtorSpecInit ==
    /\ CtorInit
    /\ InamesIdle
    /\ CallableIdle
    /\ NamingIdle
    /\ InlineIdle
    /\ RemapIdle
    /\ RegisterIdle
    /\ CacheIdle

CtorSpecNext ==
    /\ CtorNext
    /\ UNCHANGED <<inameVars,
                   callableVars,
                   namingVars,
                   inlineVars,
                   remapVars,
                   registerVars,
                   cacheVars>>

CtorSpec == CtorSpecInit /\ [][CtorSpecNext]_vars

\* dim_min and dim_max queries to one cache manager, in any order
CacheSpecInit ==
    /\ CacheInit
    /\ InamesIdle
    /\ CallableIdle
    /\ NamingIdle
    /\ InlineIdle
    /\ RemapIdle
    /\ RegisterIdle
    /\ CtorIdle

CacheSpecNext ==
    /\ CacheNext
    /\ UNCHANGED <<inameVars,
                   callableVars,
                   namingVars,
                   inlineVars,
                   remapVars,
                   registerVars,
                   ctorVars>>

CacheSpec == CacheSpecInit /\ [][CacheSpecNext]_vars

====
